---- MODULE Spec2Model ----
(***************************************************************************)
(* A model of the search core of obsidian-global-search-shortcut: the      *)
(* SearchService class (file-name index, batched content scan, result      *)
(* cache, markdown stripper and snippet extractor).                        *)
(*                                                                         *)
(* Strings are sequences of one-character strings; string positions are    *)
(* 0-based as in the TypeScript source, so CharAt(s, i) is s[i + 1].       *)
(***************************************************************************)
EXTENDS Integers, Sequences, FiniteSets, TLC

(***************************************************************************)
(* Characters and strings                                                  *)
(***************************************************************************)

NL == "\n"

\* the grave accent character (the string lexer of the tools rejects the
\* character itself, so it is written by name)
Backtick == "GRAVE"

Whitespace == {" ", "\t", NL, "\r"}

Digits == {"0", "1", "2", "3", "4", "5", "6", "7", "8", "9"}

DigitChars == <<"0", "1", "2", "3", "4", "5", "6", "7", "8", "9">>

UpperChars ==
    <<"A", "B", "C", "D", "E", "F", "G", "H", "I", "J", "K", "L", "M",
      "N", "O", "P", "Q", "R", "S", "T", "U", "V", "W", "X", "Y", "Z">>

LowerChars ==
    <<"a", "b", "c", "d", "e", "f", "g", "h", "i", "j", "k", "l", "m",
      "n", "o", "p", "q", "r", "s", "t", "u", "v", "w", "x", "y", "z">>

Min(a, b) == IF a < b THEN a ELSE b

Max(a, b) == IF a > b THEN a ELSE b

CharAt(s, i) == s[i + 1]

\* String.prototype.substring(start, end) for 0 <= start <= end <= length
Substring(s, start, end) == SubSeq(s, start + 1, end)

LowerChar(ch) ==
    IF \E k \in 1..26 : UpperChars[k] = ch
    THEN LowerChars[CHOOSE k \in 1..26 : UpperChars[k] = ch]
    ELSE ch

\* String.prototype.toLowerCase
ToLowerCase(s) == [k \in 1..Len(s) |-> LowerChar(s[k])]

\* String.prototype.indexOf: the 0-based offset of the first occurrence, or -1
IndexOf(hay, needle) ==
    LET hits == {k \in 0..(Len(hay) - Len(needle)) :
                    Substring(hay, k, k + Len(needle)) = needle}
    IN  IF hits = {} THEN -1 ELSE CHOOSE k \in hits : \A m \in hits : k <= m

\* String.prototype.trim
Trim(s) ==
    LET keep == {k \in 1..Len(s) : s[k] \notin Whitespace}
    IN  IF keep = {} THEN <<>>
        ELSE SubSeq(s, CHOOSE k \in keep : \A m \in keep : k <= m,
                       CHOOSE k \in keep : \A m \in keep : k >= m)

\* The decimal digits of a natural number, as template literals print it
RECURSIVE Decimal(_)
Decimal(n) ==
    IF n < 10 THEN <<DigitChars[n + 1]>>
    ELSE Decimal(n \div 10) \o <<DigitChars[(n % 10) + 1]>>

(***************************************************************************)
(* Regular-expression helpers: positions here are 1-based sequence         *)
(* indices.  A match attempt at position i yields <<length, replacement>>, *)
(* with length 0 when the pattern does not match at i.                     *)
(***************************************************************************)

NoMatch == <<0, <<>>>>

\* the characters of s at positions a..b that exist
Slice(s, a, b) == SubSeq(s, Max(a, 1), Min(b, Len(s)))

At(s, i) == IF i >= 1 /\ i <= Len(s) THEN s[i] ELSE ""

\* the number of consecutive characters from position i that are in set cls
SpanIn(s, i, cls) ==
    LET ends == {j \in i..(Len(s) + 1) : \A k \in i..(j - 1) : s[k] \in cls}
    IN  (CHOOSE j \in ends : \A m \in ends : j >= m) - i

\* the number of consecutive characters from position i that are not in stop
SpanNotIn(s, i, stop) ==
    LET ends == {j \in i..(Len(s) + 1) : \A k \in i..(j - 1) : s[k] \notin stop}
    IN  (CHOOSE j \in ends : \A m \in ends : j >= m) - i

\* ^ under the m flag: the start of the text or just after a line break
LineStartAt(s, i) == i = 1 \/ At(s, i - 1) \in {NL, "\r"}

\* open (.*?) close with open, close literal strings: the lazy group ends at
\* the first close that follows, and '.' matches no line break
LazyDelimited(s, i, open, close) ==
    LET lo == Len(open)
        lc == Len(close)
        from == i + lo
        ends == {j \in from..(Len(s) - lc + 1) :
                    /\ Slice(s, j, j + lc - 1) = close
                    /\ \A k \in from..(j - 1) : s[k] \notin {NL, "\r"}}
    IN  IF Slice(s, i, i + lo - 1) # open \/ ends = {} THEN NoMatch
        ELSE LET j == CHOOSE e \in ends : \A m \in ends : e <= m
             IN  <<j + lc - i, Slice(s, from, j - 1)>>

\* /\[\[([^\]|]+)\|([^\]]+)\]\]/ -> $2
MatchPipedLink(s, i) ==
    LET a == SpanNotIn(s, i + 2, {"]", "|"})
        b == SpanNotIn(s, i + 3 + a, {"]"})
    IN  IF /\ At(s, i) = "[" /\ At(s, i + 1) = "["
           /\ a >= 1 /\ At(s, i + 2 + a) = "|"
           /\ b >= 1 /\ At(s, i + 3 + a + b) = "]" /\ At(s, i + 4 + a + b) = "]"
        THEN <<a + b + 5, Slice(s, i + 3 + a, i + 2 + a + b)>>
        ELSE NoMatch

\* /\[\[([^\]]+)\]\]/ -> $1
MatchBareLink(s, i) ==
    LET a == SpanNotIn(s, i + 2, {"]"})
    IN  IF /\ At(s, i) = "[" /\ At(s, i + 1) = "["
           /\ a >= 1 /\ At(s, i + 2 + a) = "]" /\ At(s, i + 3 + a) = "]"
        THEN <<a + 4, Slice(s, i + 2, i + 1 + a)>>
        ELSE NoMatch

\* /(\*\*|__)(.*?)\1/ -> $2
MatchBold(s, i) ==
    IF At(s, i) = "*" /\ At(s, i + 1) = "*"
    THEN LazyDelimited(s, i, <<"*", "*">>, <<"*", "*">>)
    ELSE IF At(s, i) = "_" /\ At(s, i + 1) = "_"
    THEN LazyDelimited(s, i, <<"_", "_">>, <<"_", "_">>)
    ELSE NoMatch

\* /(\*|_)(.*?)\1/ -> $2
MatchItalic(s, i) ==
    IF At(s, i) \in {"*", "_"}
    THEN LazyDelimited(s, i, <<At(s, i)>>, <<At(s, i)>>)
    ELSE NoMatch

\* /~~(.*?)~~/ -> $1
MatchStrike(s, i) == LazyDelimited(s, i, <<"~", "~">>, <<"~", "~">>)

\* inline code: a backtick, ([^backtick]+), a backtick -> $1
MatchInlineCode(s, i) ==
    LET a == SpanNotIn(s, i + 1, {Backtick})
    IN  IF At(s, i) = Backtick /\ a >= 1 /\ At(s, i + 1 + a) = Backtick
        THEN <<a + 2, Slice(s, i + 1, i + a)>>
        ELSE NoMatch

\* /!\[([^\]]*)\]\([^)]+\)/ -> $1
MatchImage(s, i) ==
    LET a == SpanNotIn(s, i + 2, {"]"})
        b == SpanNotIn(s, i + 4 + a, {")"})
    IN  IF /\ At(s, i) = "!" /\ At(s, i + 1) = "["
           /\ At(s, i + 2 + a) = "]" /\ At(s, i + 3 + a) = "("
           /\ b >= 1 /\ At(s, i + 4 + a + b) = ")"
        THEN <<a + b + 5, Slice(s, i + 2, i + 1 + a)>>
        ELSE NoMatch

\* /\[([^\]]+)\]\([^)]+\)/ -> $1
MatchLink(s, i) ==
    LET a == SpanNotIn(s, i + 1, {"]"})
        b == SpanNotIn(s, i + 3 + a, {")"})
    IN  IF /\ At(s, i) = "[" /\ a >= 1
           /\ At(s, i + 1 + a) = "]" /\ At(s, i + 2 + a) = "("
           /\ b >= 1 /\ At(s, i + 3 + a + b) = ")"
        THEN <<a + b + 4, Slice(s, i + 1, i + a)>>
        ELSE NoMatch

\* /^#{1,6}\s+/m -> the empty string
MatchHeading(s, i) ==
    LET h == SpanIn(s, i, {"#"})
        w == SpanIn(s, i + h, Whitespace)
    IN  IF LineStartAt(s, i) /\ h >= 1 /\ h <= 6 /\ w >= 1
        THEN <<h + w, <<>>>>
        ELSE NoMatch

\* /^[\s]*[-*+]\s+/m -> the empty string
MatchBullet(s, i) ==
    LET w0 == SpanIn(s, i, Whitespace)
        w1 == SpanIn(s, i + w0 + 1, Whitespace)
    IN  IF LineStartAt(s, i) /\ At(s, i + w0) \in {"-", "*", "+"} /\ w1 >= 1
        THEN <<w0 + 1 + w1, <<>>>>
        ELSE NoMatch

\* /^[\s]*\d+\.\s+/m -> the empty string
MatchNumbered(s, i) ==
    LET w0 == SpanIn(s, i, Whitespace)
        d  == SpanIn(s, i + w0, Digits)
        w1 == SpanIn(s, i + w0 + d + 1, Whitespace)
    IN  IF LineStartAt(s, i) /\ d >= 1 /\ At(s, i + w0 + d) = "." /\ w1 >= 1
        THEN <<w0 + d + 1 + w1, <<>>>>
        ELSE NoMatch

\* a rule that replaces every newline by a space of its own
MatchOneNewline(s, i) ==
    IF At(s, i) = NL THEN <<1, <<" ">>>> ELSE NoMatch

\* /\n+/ -> one space
MatchNewlines(s, i) ==
    LET n == SpanIn(s, i, {NL})
    IN  IF n >= 1 THEN <<n, <<" ">>>> ELSE NoMatch

MatchAt(rule, s, i) ==
    CASE rule = "pipedLink"  -> MatchPipedLink(s, i)
      [] rule = "bareLink"   -> MatchBareLink(s, i)
      [] rule = "bold"       -> MatchBold(s, i)
      [] rule = "italic"     -> MatchItalic(s, i)
      [] rule = "strike"     -> MatchStrike(s, i)
      [] rule = "inlineCode" -> MatchInlineCode(s, i)
      [] rule = "image"      -> MatchImage(s, i)
      [] rule = "link"       -> MatchLink(s, i)
      [] rule = "heading"    -> MatchHeading(s, i)
      [] rule = "bullet"     -> MatchBullet(s, i)
      [] rule = "numbered"   -> MatchNumbered(s, i)
      [] rule = "newlines"   -> MatchNewlines(s, i)

\* String.prototype.replace with a g-flagged pattern: scan left to right,
\* replace each match and resume after it, copy unmatched characters
RECURSIVE ReplaceFrom(_, _, _)

\* the least member of a set of positions, 0 if there is none
Least(S) == IF S = {} THEN 0 ELSE CHOOSE k \in S : \A m \in S : k <= m

\* the first position from i on at which the rule matches
NextMatch(rule, s, i) == Least({j \in i..Len(s) : MatchAt(rule, s, j)[1] > 0})

ReplaceStep(rule, s, i, j, m) ==
    SubSeq(s, i, j - 1) \o m[2] \o ReplaceFrom(rule, s, j + m[1])

ReplaceAt(rule, s, i, j) ==
    IF j = 0 THEN SubSeq(s, i, Len(s))
    ELSE ReplaceStep(rule, s, i, j, MatchAt(rule, s, j))

ReplaceFrom(rule, s, i) ==
    IF i > Len(s) THEN <<>> ELSE ReplaceAt(rule, s, i, NextMatch(rule, s, i))

ReplaceAll(rule, s) == ReplaceFrom(rule, s, 1)

\* the rules with the link rule ahead of the image rule
StripRulesLinkFirst ==
    <<"pipedLink", "bareLink", "bold", "italic", "strike", "inlineCode",
      "link", "image", "heading", "bullet", "numbered">>

\* the rewrite rules of stripMarkdown, in the order the source applies them
StripRules ==
    <<"pipedLink", "bareLink", "bold", "italic", "strike", "inlineCode",
      "image", "link", "heading", "bullet", "numbered">>

RECURSIVE ApplyRules(_, _, _)
ApplyRules(rules, k, s) ==
    IF k > Len(rules) THEN s
    ELSE ApplyRules(rules, k + 1, ReplaceAll(rules[k], s))

stripMarkdown(text) == ApplyRules(StripRules, 1, text)

SNIPPET_CONTEXT_LENGTH == 40

RECURSIVE LineStartOf(_, _)
LineStartOf(content, k) ==
    IF k > 0 /\ CharAt(content, k - 1) # NL THEN LineStartOf(content, k - 1)
    ELSE k

RECURSIVE LineEndOf(_, _)
LineEndOf(content, k) ==
    IF k < Len(content) /\ CharAt(content, k) # NL THEN LineEndOf(content, k + 1)
    ELSE k

getContextSnippet(content, matchIndex, query) ==
    LET lineStart == LineStartOf(content, matchIndex)
        lineEnd   == LineEndOf(content, matchIndex + Len(query))
        start     == Max(0, lineStart - SNIPPET_CONTEXT_LENGTH)
        end       == Min(Len(content), lineEnd + SNIPPET_CONTEXT_LENGTH)
        body      == Trim(ReplaceAll("newlines", Substring(content, start, end)))
        pre       == IF start > 0 THEN <<".", ".", ".">> ELSE <<>>
        post      == IF end < Len(content) THEN <<".", ".", ".">> ELSE <<>>
    IN  pre \o body \o post

(***************************************************************************)
(* Bounds of the model                                                     *)
(***************************************************************************)

\* searchInFiles calls started in one behaviour of Spec
MaxSearches == 2

\* searchInFiles calls started in one behaviour of SpecCache
MaxCacheSearches == 3

\* searchInFiles calls started in one behaviour of SpecEvict
MaxEvictSearches == 4

\* clock advances in one behaviour
MaxTicks == 2

\* changes of the document set in one behaviour
MaxVaultChanges == 1

\* document reads that fail in one behaviour
MaxReadFailures == 1

(***************************************************************************)
(* Constants of SearchService.  The three size constants are scaled down   *)
(* (5000, 50 and 20 in the source) so that truncation, eviction and a      *)
(* second batch happen with three documents.                               *)
(***************************************************************************)

INDEX_UPDATE_INTERVAL == 5000

CACHE_TTL == 30000

MAX_INDEX_SIZE == 2

MAX_CACHE_SIZE == 2

CONTENT_SEARCH_BATCH_SIZE == 2

\* const contentScore = 800
ContentScore == 800

(***************************************************************************)
(* The environment: the vault, the clock, the callers' inputs              *)
(***************************************************************************)

\* the markdown files a vault may hold, in the order getMarkdownFiles lists them
VaultOrder == <<"a.md", "ab.md", "c.md">>

Paths == {VaultOrder[k] : k \in 1..Len(VaultOrder)}

\* TFile.basename
Basename(path) ==
    CASE path = "a.md"  -> <<"a">>
      [] path = "ab.md" -> <<"a", "b">>
      [] path = "c.md"  -> <<"c">>

\* document contents: an emphasised "A" (stripped to "A", found by the
\* query "a" only) and a line with three spaces inside (found by the
\* query of three spaces only)
Contents == { <<"*", "A", "*">>, <<"b", " ", " ", " ", "b">> }

Queries == { <<>>, <<" ", " ", " ">>, <<"a">> }

\* the limits callers pass
Limits == {1, 2}

\* the queries and limits of the calls that fill the cache: a query that
\* itself holds the key's separator and a digit, and one limit more
CacheQueries == { <<"a">>, <<"a", ":", "1">> }

CacheLimits == {1, 2, 3}

\* modification times
MTimes == {1, 2}

\* the clock advances by one of these (ms)
TickSizes == {2500, 27500}

StartTime == 4 * CACHE_TTL

AbsentDoc == [present |-> FALSE, content |-> <<>>, mtime |-> 0]

\* the vaults a behaviour starts from: any documents with any contents,
\* none modified later than another (a change of the vault may set any
\* modification time)
InitVaults ==
    [Paths -> {AbsentDoc} \cup [present : {TRUE}, content : Contents, mtime : {1}]]

\* the initial vaults in which every document is present
FullVaults == {v \in InitVaults : \A p \in Paths : v[p].present}

(***************************************************************************)
(* Fuse.js (an external library): Fuse.search returns the items whose      *)
(* distance to the pattern is within the threshold 0.4, each with its      *)
(* distance, best first.  Distances are in thousandths; -1 is no match.    *)
(* Matching ignores case.  The table fixes the outcome for the file names  *)
(* of the model: an exact name, a partial match and a miss.                *)
(***************************************************************************)

FuseDistance(query, path) ==
    IF ToLowerCase(query) = <<"a">>
    THEN CASE path = "a.md"  -> 0
           [] path = "ab.md" -> 300
           [] OTHER          -> -1
    ELSE -1

(***************************************************************************)
(* Sequences                                                               *)
(***************************************************************************)

\* a slice that cuts nothing
TakeAll(seq, n) == seq

\* Array.prototype.slice(0, n)
Take(seq, n) == SubSeq(seq, 1, Min(n, Len(seq)))

\* Array.prototype.sort with comparator (a, b) => key(b) - key(a), where
\* keys[i] is the key of seq[i]: a stable sort, greatest key first
SortDescBy(seq, keys) ==
    LET n == Len(seq)
        rank(i) == 1 + Cardinality({j \in 1..n :
                        \/ keys[j] > keys[i]
                        \/ keys[j] = keys[i] /\ j < i})
    IN  [p \in 1..n |-> seq[CHOOSE i \in 1..n : rank(i) = p]]

RECURSIVE Flatten(_)
Flatten(seqs) == IF seqs = <<>> THEN <<>> ELSE Head(seqs) \o Flatten(Tail(seqs))

(***************************************************************************)
(* SearchService: pure parts                                               *)
(***************************************************************************)

\* vault.getMarkdownFiles()
getMarkdownFiles(v) == SelectSeq(VaultOrder, LAMBDA p : v[p].present)

\* .sort((a, b) => b.stat.mtime - a.stat.mtime)
SortByMtime(v, files) ==
    SortDescBy(files, [k \in 1..Len(files) |-> v[files[k]].mtime])

\* an index of the first files as the vault lists them
BuildIndexUnsorted(v) == Take(getMarkdownFiles(v), MAX_INDEX_SIZE)

\* the fileData that updateFileIndex hands to Fuse
BuildIndex(v) == Take(SortByMtime(v, getMarkdownFiles(v)), MAX_INDEX_SIZE)

\* this.fileIndex.search(query): the matching items, least distance first
FuseSearch(items, query) ==
    LET hits == SelectSeq(items, LAMBDA p : FuseDistance(query, p) >= 0)
    IN  SortDescBy(hits, [k \in 1..Len(hits) |-> 0 - FuseDistance(query, hits[k])])

\* stripMarkdown over the contents of the model, computed once
StrippedContents == [k \in Contents |-> stripMarkdown(k)]

Stripped(content) ==
    IF content \in Contents THEN StrippedContents[content]
    ELSE stripMarkdown(content)

SearchResult(path, score, snippet) ==
    [path |-> path, name |-> Basename(path), score |-> score, snippet |-> snippet]

\* the file-name hits: filenameResults.slice(0, limit), those that are still
\* files of the vault, with score (1 - distance) * 1000
\* the file-name hits without the test that the document still exists
FilenameResultsUnchecked(items, v, query, limit) ==
    LET top == Take(FuseSearch(items, query), limit)
    IN  [k \in 1..Len(top) |->
            SearchResult(top[k], 1000 - FuseDistance(query, top[k]), <<>>)]

FilenameResults(items, v, query, limit) ==
    LET top  == Take(FuseSearch(items, query), limit)
        live == SelectSeq(top, LAMBDA p : v[p].present)
    IN  [k \in 1..Len(live) |->
            SearchResult(live[k], 1000 - FuseDistance(query, live[k]), <<>>)]

PathsOf(results) == {results[k].path : k \in 1..Len(results)}

\* the first match of the query in the stripped content, ignoring case
\* (index -1: none), and the snippet around it
FoundAt(stripped, index, query) ==
    [index   |-> index,
     snippet |-> IF index = -1 THEN <<>>
                 ELSE getContextSnippet(stripped, index, query)]

MatchIn(stripped, query) ==
    FoundAt(stripped, IndexOf(ToLowerCase(stripped), ToLowerCase(query)), query)

ContentMatch(content, query) == MatchIn(Stripped(content), query)

\* a callback that never looks for an existing result of the path
MergeMatchNoDedup(results, foundPaths, path, m) ==
    IF m.index = -1
    THEN [results |-> results, value |-> <<>>]
    ELSE [results |-> results,
          value   |-> <<SearchResult(path, ContentScore, m.snippet)>>]

\* a callback that gives an existing result the content score, higher or not
MergeMatchOverwriteScore(results, foundPaths, path, m) ==
    LET existing == {k \in 1..Len(results) : results[k].path = path}
        ei       == CHOOSE k \in existing : \A j \in existing : k <= j
        old      == results[ei]
        merged   == [old EXCEPT
                        !.score   = ContentScore,
                        !.snippet = IF old.snippet = <<>>
                                    THEN m.snippet ELSE old.snippet]
    IN  IF m.index = -1
        THEN [results |-> results, value |-> <<>>]
        ELSE IF path \in foundPaths
        THEN [results |-> IF existing = {} THEN results
                          ELSE [results EXCEPT ![ei] = merged],
              value   |-> <<>>]
        ELSE [results |-> results,
              value   |-> <<SearchResult(path, ContentScore, m.snippet)>>]

\* the callback's handling of a match m of a document that was read: an
\* existing file-name hit is updated in place and the callback's value is
\* null (<<>>), otherwise its value is a new result
MergeMatch(results, foundPaths, path, m) ==
    LET existing == {k \in 1..Len(results) : results[k].path = path}
        ei       == CHOOSE k \in existing : \A j \in existing : k <= j
        old      == results[ei]
        merged   == [old EXCEPT
                        !.score   = IF ContentScore > old.score
                                    THEN ContentScore ELSE old.score,
                        !.snippet = IF old.snippet = <<>>
                                    THEN m.snippet ELSE old.snippet]
    IN  IF m.index = -1
        THEN [results |-> results, value |-> <<>>]
        ELSE IF path \in foundPaths
        THEN [results |-> IF existing = {} THEN results
                          ELSE [results EXCEPT ![ei] = merged],
              value   |-> <<>>]
        ELSE [results |-> results,
              value   |-> <<SearchResult(path, ContentScore, m.snippet)>>]

\* a callback without the try/catch's effect: a failed read is handled as a
\* read of the document's content
ProcessReadIgnoringFailure(results, foundPaths, path, readOK, content, query) ==
    MergeMatch(results, foundPaths, path, ContentMatch(content, query))

\* the body of one batch callback once its read has settled: the working
\* results and the callback's value; a failed read is caught and gives null
ProcessRead(results, foundPaths, path, readOK, content, query) ==
    IF ~readOK THEN [results |-> results, value |-> <<>>]
    ELSE MergeMatch(results, foundPaths, path, ContentMatch(content, query))

\* for (const result of validResults) { push; add; if (length >= limit) break }
RECURSIVE PushValid(_, _, _, _, _)
PushValid(results, foundPaths, valid, k, limit) ==
    IF k > Len(valid) THEN [results |-> results, foundPaths |-> foundPaths]
    ELSE LET r == Append(results, valid[k])
             f == foundPaths \cup {valid[k].path}
         IN  IF Len(r) >= limit THEN [results |-> r, foundPaths |-> f]
             ELSE PushValid(r, f, valid, k + 1, limit)

\* a sort that puts results of equal score in reverse insertion order
FinalResultsTiesReversed(results, limit) ==
    LET n   == Len(results)
        rev == [k \in 1..n |-> results[n + 1 - k]]
    IN  Take(SortDescBy(rev, [k \in 1..n |-> rev[k].score]), limit)

\* the return without the sort
FinalResultsUnsorted(results, limit) == Take(results, limit)

\* results.sort((a, b) => b.score - a.score).slice(0, limit)
FinalResults(results, limit) ==
    Take(SortDescBy(results, [k \in 1..Len(results) |-> results[k].score]),
         limit)

\* a cache key without the limit
CacheKeyNoLimit(query, limit) == query

\* the cache key, a template literal: query, a colon, the limit in decimal
CacheKey(query, limit) == query \o <<":">> \o Decimal(limit)

\* Map.prototype.get: the entries with this key (none or one)
CacheGet(cache, key) == SelectSeq(cache, LAMBDA e : e.key = key)

\* Map.prototype.set: a new key goes last, an existing key keeps its place
CacheSet(cache, key, results, timestamp) ==
    LET entry == [key |-> key, results |-> results, timestamp |-> timestamp]
    IN  IF \E k \in 1..Len(cache) : cache[k].key = key
        THEN [k \in 1..Len(cache) |->
                 IF cache[k].key = key THEN entry ELSE cache[k]]
        ELSE Append(cache, entry)

\* a cache that never deletes
CacheEvictNever(cache) == cache

\* a cache that deletes its last key
CacheEvictNewest(cache) ==
    IF Len(cache) > MAX_CACHE_SIZE THEN SubSeq(cache, 1, Len(cache) - 1)
    ELSE cache

\* if (size > MAX_CACHE_SIZE) delete the first key
CacheEvict(cache) == IF Len(cache) > MAX_CACHE_SIZE THEN Tail(cache) ELSE cache

CacheStore(cache, key, results, timestamp) ==
    CacheEvict(CacheSet(cache, key, results, timestamp))

(***************************************************************************)
(* searchInFiles as one computation in which the reads of a batch settle   *)
(* in batch order.  failed is the set of documents whose read fails.       *)
(***************************************************************************)

RECURSIVE SeqReads(_, _, _, _, _, _, _, _, _)
SeqReadsNext(v, files, k, hi, foundPaths, query, failed, values, pr) ==
    SeqReads(v, files, k + 1, hi, pr.results, foundPaths, query, failed,
             values \o pr.value)

SeqReads(v, files, k, hi, results, foundPaths, query, failed, values) ==
    IF k > hi THEN [results |-> results, values |-> values]
    ELSE IF ~v[files[k]].present \/ files[k] \in failed
    THEN \* an unreadable document is no content match
         SeqReads(v, files, k + 1, hi, results, foundPaths, query, failed,
                  values)
    ELSE SeqReadsNext(v, files, k, hi, foundPaths, query, failed, values,
                      ProcessRead(results, foundPaths, files[k], TRUE,
                                  v[files[k]].content, query))

RECURSIVE SeqBatches(_, _, _, _, _, _, _, _)
SeqBatchesNext(v, files, i, foundPaths, query, limit, failed, pv) ==
    SeqBatches(v, files, i + CONTENT_SEARCH_BATCH_SIZE, pv.results,
               pv.foundPaths, query, limit, failed)

SeqPush(foundPaths, limit, rd) ==
    PushValid(rd.results, foundPaths, rd.values, 1, limit)

SeqBatches(v, files, i, results, foundPaths, query, limit, failed) ==
    IF i < Len(files) /\ Len(results) < limit
    THEN SeqBatchesNext(v, files, i, foundPaths, query, limit, failed,
             SeqPush(foundPaths, limit,
                 SeqReads(v, files, i + 1,
                          Min(i + CONTENT_SEARCH_BATCH_SIZE, Len(files)),
                          results, foundPaths, query, failed, <<>>)))
    ELSE FinalResults(results, limit)

SeqFrom(v, query, limit, failed, r0) ==
    SeqBatches(v, SortByMtime(v, getMarkdownFiles(v)), 0, r0, PathsOf(r0),
               query, limit, failed)

\* a cache-miss search over vault v with the file-name index holding items
SeqSearch(v, items, query, limit, failed) ==
    SeqFrom(v, query, limit, failed, FilenameResults(items, v, query, limit))

(***************************************************************************)
(* State                                                                   *)
(***************************************************************************)

VARIABLES
    vault,            \* path -> document (the Obsidian vault)
    now,              \* Date.now()
    fileIndex,        \* this.fileIndex: not built (null) or the indexed paths
    lastIndexUpdate,  \* this.lastIndexUpdate
    searchCache,      \* this.searchCache, entries in insertion order
    calls,            \* the searchInFiles activations suspended at an await
    returned,         \* the activation that settled in the last step, if any
    lastReturned,     \* history: (query, limit) -> what the last search returned
    nSearches,        \* calls started
    nTicks,           \* clock advances
    nChanges,         \* vault changes
    nFailures,        \* failed reads
    window,           \* the search window: its result list and selection
    probe,            \* a text function applied on its own: input and output
    ipc,              \* ElectronService: its timer, its messages and replies
    plugin            \* the plugin: settings, hotkey, windows, settings tab

vars ==
    <<vault, now, fileIndex, lastIndexUpdate, searchCache, calls, returned,
      lastReturned, nSearches, nTicks, nChanges, nFailures, window, probe,
      ipc, plugin>>

\* what a step of the SearchService leaves alone
outside == <<window, probe, ipc, plugin>>

\* the activations of searchInFiles that may be suspended together
Calls == {1, 2}

\* the limits that the max-results setting takes besides 1: the default
\* and the values the entries of the settings tab give
SettingLimits == {7, 12, 50, 200}

\* the (query, limit) pairs of the calls that reach the cache
Keys ==
    ((Queries \cup CacheQueries) \ {<<>>})
        \X (Limits \cup CacheLimits \cup SettingLimits)

NullIndex == [built |-> FALSE, items |-> <<>>]

\* an activation that has not started.  When it settles, its record (with
\* outcome and ret set) is what `returned` shows for one step.
IdleCall ==
    [pc |-> "idle", query |-> <<>>, limit |-> 1,
     results |-> <<>>, foundPaths |-> {}, allFiles |-> <<>>, i |-> 0,
     pending |-> {}, completed |-> <<>>,
     outcome |-> "none", ret |-> <<>>,
     \* history of the activation
     entry |-> "none",    \* the cache entry for its key when it started
     prior |-> <<>>,      \* lastReturned for its key when it started
     hit |-> FALSE,       \* it returned the cached results
     rebuilt |-> FALSE,   \* it rebuilt the file-name index
     enumFailed |-> FALSE,\* document enumeration failed in it
     items |-> <<>>,      \* the index items its file-name search read
     changed |-> FALSE,   \* the vault changed after it started
     present |-> {},      \* the documents of the vault when it started
     failed |-> {},       \* the documents whose read failed in it
     outOfOrder |-> FALSE]\* a read settled before one issued earlier

\* the state of the cache entry of key at time t: none, fresh or expired
EntryState(cache, key, t) ==
    LET e == CacheGet(cache, key)
    IN  IF e = <<>> THEN "none"
        ELSE IF t - e[1].timestamp < CACHE_TTL THEN "fresh" ELSE "expired"

InitService ==
    /\ now = StartTime
    /\ fileIndex = NullIndex
    /\ lastIndexUpdate = 0
    /\ searchCache = <<>>
    /\ calls = [c \in Calls |-> IdleCall]
    /\ returned = IdleCall
    /\ lastReturned = [k \in Keys |-> <<>>]
    /\ nSearches = 0
    /\ nTicks = 0
    /\ nChanges = 0
    /\ nFailures = 0

\* the search window as its script starts: let selectedIndex = 0, no
\* result item in the document, nothing opened
InitWindow ==
    [items |-> <<>>, selectedIndex |-> 0, selected |-> {}, opened |-> "none",
     preview  |-> "empty", \* the preview pane: empty, loading or the document
                           \* whose preview it shows
     requests |-> <<>>,    \* the get-file-preview messages not yet answered
     input    |-> <<>>,    \* searchInput.value
     searchTimeout |-> "none", \* the pending timer of updateResults: its query
     sent     |-> <<>>,    \* the queries of the search-content messages sent
     nRecent  |-> 1]       \* the get-recent-files messages sent

\* no text function under application
NoProbe == [fn |-> "none"]

\* ElectronService after setupIpcHandler, the search window shown: no timer
\* (searchDebounceTimer = null), no message received, nothing replied
InitIpc ==
    [timer    |-> <<>>,    \* the pending timer: the message it will search for
     sent     |-> <<>>,    \* the search-content messages received
     invoked  |-> <<>>,    \* the messages searchInFiles was called for
     owner    |-> [c \in Calls |-> 0], \* the message of each activation
     replies  |-> <<>>,    \* the messages search-results was sent for
     shown    |-> 0,       \* the message whose results the window shows
     windowOpen |-> TRUE,  \* the search window is open
     openedFile |-> "none",\* the file handed to openFileInNewWindow
     nRequests  |-> 0,     \* open-file and get-file-preview messages handled
     request    |-> <<>>,  \* the last of them: its channel and argument
     previewReads   |-> <<>>,  \* the files read for previews
     previewReplies |-> <<>>]  \* the file-preview replies sent

\* DEFAULT_SETTINGS
DEFAULT_SETTINGS ==
    [globalHotkey |-> "CommandOrControl+Shift+O", maxSearchResults |-> 50]

\* the plugin after onload has constructed the ElectronService and before
\* initialize(): no Electron API, no hotkey, no listener, no search window
InitPlugin ==
    [settings   |-> DEFAULT_SETTINGS,
     saved      |-> DEFAULT_SETTINGS, \* the settings last saved
     electron   |-> FALSE,   \* this.electron and this.globalShortcut are set
     initTimer  |-> "unset", \* the timer of initialize(): unset, pending, fired
     initAt     |-> 0,       \* when initialize() set it
     attached   |-> FALSE,   \* the listeners are attached to ipcMain
     unloaded   |-> FALSE,   \* cleanup() has run
     searchesAtUnload |-> 0, \* nSearches when it ran
     registered |-> {},      \* the accelerators the plugin has registered
     registeredHotkey |-> "null",
     nRegisters |-> 0,       \* calls of globalShortcut.register
     lastRegister |-> "none",\* the outcome of the last one
     searchWindow |-> 0,     \* this.searchWindow: a window or 0 (null)
     windows    |-> <<>>,    \* the windows created: open, closing or closed
     blurs      |-> {},      \* the windows whose blur event is to be delivered
     nBlurs     |-> 0,       \* the blur events so far
     nCloses    |-> 0,       \* the close-window messages so far
     \* the settings tab
     isRecording |-> FALSE,
     nKeys      |-> 0,       \* the key presses while a handler was attached
     nEdits     |-> 0,       \* the edits of the max-results field
     lastEntry  |-> <<>>,    \* the text of the last one
     nSessions  |-> 0,       \* the recording sessions started
     handlers   |-> {},      \* the sessions whose keydown handler is attached
     timers     |-> {},      \* the sessions whose 10 s timer is pending
     saving     |-> {},      \* the sessions whose handler awaits saveSettings
     lastEnd    |-> [session |-> 0, by |-> 0]] \* the session that ended last
                             \* and the session whose handler or timer ended it

\* the plugin once initializeElectron has run with the Electron API: the
\* listeners are attached
RunningPlugin ==
    [InitPlugin EXCEPT !.electron = TRUE, !.attached = TRUE,
                       !.initTimer = "fired"]

InitOutside ==
    window = InitWindow /\ probe = NoProbe /\ ipc = InitIpc /\ plugin = InitPlugin

Init == vault \in InitVaults /\ InitService /\ InitOutside

InitCache == vault \in FullVaults /\ InitService /\ InitOutside

(***************************************************************************)
(* searchInFiles                                                           *)
(***************************************************************************)

\* a cache test against the wrong interval
CacheHitShortTTL(cache, key, t) ==
    LET e == CacheGet(cache, key)
    IN  e # <<>> /\ (t - e[1].timestamp) < INDEX_UPDATE_INTERVAL

\* a call that searches whatever the query is
EmptyQueryNever(query) == FALSE

\* if (!query || query.length < 1)
EmptyQuery(query) == query = <<>>

\* a call that never uses the cache
CacheHitNever(cache, key, t) == FALSE

\* a cache test without the age check
CacheHitNoTTL(cache, key, t) == CacheGet(cache, key) # <<>>

\* if (cached && (Date.now() - cached.timestamp) < CACHE_TTL)
CacheHit(cache, key, t) ==
    LET e == CacheGet(cache, key)
    IN  e # <<>> /\ (t - e[1].timestamp) < CACHE_TTL

\* an early return that still holds at the age INDEX_UPDATE_INTERVAL
IndexIsCurrentInclusive(index, last, t) ==
    index.built /\ (t - last) <= INDEX_UPDATE_INTERVAL

\* updateFileIndex returns early:
\* this.fileIndex && (now - this.lastIndexUpdate) < INDEX_UPDATE_INTERVAL
IndexIsCurrent(index, last, t) ==
    index.built /\ (t - last) < INDEX_UPDATE_INTERVAL

\* a scan that stops after its first batch
AdvanceOneBatch(cl, results, foundPaths, i) ==
    IF i = 0 /\ i < Len(cl.allFiles) /\ Len(results) < cl.limit
    THEN [cl EXCEPT !.pc = "scan", !.results = results,
                    !.foundPaths = foundPaths, !.i = i,
                    !.pending = 1..Min(CONTENT_SEARCH_BATCH_SIZE,
                                       Len(cl.allFiles) - i),
                    !.completed = <<>>]
    ELSE [cl EXCEPT !.pc = "done", !.outcome = "returned",
                    !.ret = FinalResults(results, cl.limit),
                    !.results = <<>>, !.foundPaths = {}, !.allFiles = <<>>,
                    !.i = 0, !.pending = {}, !.completed = <<>>]

\* a loop head that goes on to the next batch whatever the results hold
AdvanceIgnoringLimit(cl, results, foundPaths, i) ==
    IF i < Len(cl.allFiles)
    THEN [cl EXCEPT !.pc = "scan", !.results = results,
                    !.foundPaths = foundPaths, !.i = i,
                    !.pending = 1..Min(CONTENT_SEARCH_BATCH_SIZE,
                                       Len(cl.allFiles) - i),
                    !.completed = <<>>]
    ELSE [cl EXCEPT !.pc = "done", !.outcome = "returned",
                    !.ret = FinalResults(results, cl.limit),
                    !.results = <<>>, !.foundPaths = {}, !.allFiles = <<>>,
                    !.i = 0, !.pending = {}, !.completed = <<>>]

\* a rebuild that leaves the index with the first document only
updateFileIndexPartial(index, last, v, t) ==
    IF IndexIsCurrent(index, last, t)
    THEN [index |-> index, last |-> last]
    ELSE [index |-> [built |-> TRUE, items |-> Take(BuildIndex(v), 1)],
          last  |-> t]

\* updateFileIndex at time t over vault v: the index and lastIndexUpdate it
\* leaves; it has no await, so no other code runs inside it
updateFileIndex(index, last, v, t) ==
    IF IndexIsCurrent(index, last, t)
    THEN [index |-> index, last |-> last]
    ELSE [index |-> [built |-> TRUE, items |-> BuildIndex(v)], last |-> t]

\* the for-loop head of the content scan, reached with working results
\* `results` and batch offset i: either the reads of the next batch are
\* issued, or the results are sorted, cut and returned
Advance(cl, results, foundPaths, i) ==
    IF i < Len(cl.allFiles) /\ Len(results) < cl.limit
    THEN [cl EXCEPT !.pc = "scan", !.results = results,
                    !.foundPaths = foundPaths, !.i = i,
                    !.pending = 1..Min(CONTENT_SEARCH_BATCH_SIZE,
                                       Len(cl.allFiles) - i),
                    !.completed = <<>>]
    ELSE [cl EXCEPT !.pc = "done", !.outcome = "returned",
                    !.ret = FinalResults(results, cl.limit),
                    !.results = <<>>, !.foundPaths = {}, !.allFiles = <<>>,
                    !.i = 0, !.pending = {}, !.completed = <<>>]

\* the effect on the service of a step that leaves an activation as `next`:
\* while it is suspended nothing; once it has its final results, the cache
\* store and the eviction
Settle(c, next) ==
    IF next.pc = "scan"
    THEN /\ calls' = [calls EXCEPT ![c] = next]
         /\ returned' = IdleCall
         /\ UNCHANGED <<searchCache, lastReturned>>
    ELSE /\ calls' = [calls EXCEPT ![c] = IdleCall]
         /\ returned' = next
         /\ searchCache' = CacheStore(searchCache,
                                      CacheKey(next.query, next.limit),
                                      next.ret, now)
         /\ lastReturned' =
                [lastReturned EXCEPT ![<<next.query, next.limit>>] = next.ret]

\* activations are anonymous: a new one takes the first free slot
FreeSlot(c) ==
    /\ calls[c].pc = "idle"
    /\ \A d \in Calls : d < c => calls[d].pc # "idle"

\* a call of searchInFiles(query, limit), up to its first await or its return
StartCall(c, query, limit, enumOK) ==
    /\ FreeSlot(c)
    /\ nSearches' = nSearches + 1
    /\ UNCHANGED <<vault, now, nTicks, nChanges, nFailures>>
    /\ LET key     == CacheKey(query, limit)
           cl      == [IdleCall EXCEPT
                          !.query = query, !.limit = limit,
                          !.present = {p \in Paths : vault[p].present},
                          !.entry = IF query = <<>> THEN "none"
                                    ELSE EntryState(searchCache, key, now),
                          !.prior = IF query = <<>> THEN <<>>
                                    ELSE lastReturned[<<query, limit>>]]
           current == IndexIsCurrent(fileIndex, lastIndexUpdate, now)
           index   == updateFileIndex(fileIndex, lastIndexUpdate, vault,
                                      now).index
           r0      == FilenameResults(index.items, vault, query, limit)
           files   == SortByMtime(vault, getMarkdownFiles(vault))
           next    == Advance([cl EXCEPT !.rebuilt = ~current,
                                         !.items = index.items,
                                         !.allFiles = files],
                              r0, PathsOf(r0), 0)
       IN  IF EmptyQuery(query)
           THEN \* return []
                /\ returned' = [cl EXCEPT !.pc = "done", !.outcome = "returned"]
                /\ UNCHANGED <<calls, fileIndex, lastIndexUpdate, searchCache,
                               lastReturned>>
           ELSE IF CacheHit(searchCache, key, now)
           THEN /\ returned' =
                       [cl EXCEPT !.pc = "done", !.outcome = "returned",
                                  !.hit = TRUE,
                                  !.ret = CacheGet(searchCache, key)[1].results]
                /\ UNCHANGED <<calls, fileIndex, lastIndexUpdate, searchCache,
                               lastReturned>>
           ELSE IF ~enumOK
           THEN \* getMarkdownFiles throws, in updateFileIndex or before the
                \* scan: nothing catches it and the promise is rejected
                /\ returned' = [cl EXCEPT !.pc = "done", !.outcome = "raised",
                                          !.enumFailed = TRUE]
                /\ UNCHANGED <<calls, fileIndex, lastIndexUpdate, searchCache,
                               lastReturned>>
           ELSE /\ fileIndex' = index
                /\ lastIndexUpdate' =
                       updateFileIndex(fileIndex, lastIndexUpdate, vault,
                                       now).last
                /\ Settle(c, next)

\* a call by a caller the model does not follow
Start(c, query, limit, enumOK) ==
    StartCall(c, query, limit, enumOK) /\ UNCHANGED outside

\* the callbacks' values in the order the reads settled
BatchResultsInCompletionOrder(completed) ==
    Flatten([k \in 1..Len(completed) |-> completed[k].value])

\* Promise.all(batchPromises): the callbacks' values in batch order
BatchResults(completed) ==
    LET byPos == SortDescBy(completed,
                            [k \in 1..Len(completed) |-> 0 - completed[k].pos])
    IN  Flatten([k \in 1..Len(byPos) |-> byPos[k].value])

\* a loop that goes on to the next batch as soon as one read has settled
AfterCallbackEager(cl, pos, pr, completed) ==
    LET pv == PushValid(pr.results, cl.foundPaths, BatchResults(completed),
                        1, cl.limit)
    IN  Advance(cl, pv.results, pv.foundPaths,
                cl.i + CONTENT_SEARCH_BATCH_SIZE)

\* the activation after the callback of batch position pos has run with
\* outcome pr: suspended again while reads of the batch are outstanding;
\* after the last one Promise.all resolves, the batch's values are pushed
\* and the loop head is reached
AfterCallback(cl, pos, pr, completed) ==
    LET pv == PushValid(pr.results, cl.foundPaths, BatchResults(completed),
                        1, cl.limit)
    IN  IF cl.pending # {pos}
        THEN [cl EXCEPT !.results = pr.results,
                        !.pending = @ \ {pos},
                        !.completed = completed]
        ELSE Advance(cl, pv.results, pv.foundPaths,
                     cl.i + CONTENT_SEARCH_BATCH_SIZE)

AfterRead(cl, pos, pr) ==
    AfterCallback(cl, pos, pr,
                  Append(cl.completed, [pos |-> pos, value |-> pr.value]))

\* the read of the document at batch position pos settles (ok: it resolves
\* with the content the document has now) and its callback runs
ReadSettlesCall(c, pos, ok) ==
    /\ calls[c].pc = "scan"
    /\ pos \in calls[c].pending
    /\ nFailures' = IF ok THEN nFailures ELSE nFailures + 1
    /\ UNCHANGED <<vault, now, fileIndex, lastIndexUpdate, nSearches, nTicks,
                   nChanges>>
    /\ LET cl   == calls[c]
           path == cl.allFiles[cl.i + pos]
           doc  == vault[path]
       IN  Settle(c, AfterRead(
                         [cl EXCEPT !.failed = IF ok THEN @ ELSE @ \cup {path},
                                    !.outOfOrder =
                                        @ \/ \E p \in cl.pending : p < pos],
                         pos,
                         ProcessRead(cl.results, cl.foundPaths, path,
                                     ok /\ doc.present, doc.content, cl.query)))

\* a read settles in an activation whose caller the model does not follow
ReadSettles(c, pos, ok) ==
    ReadSettlesCall(c, pos, ok) /\ UNCHANGED outside

(***************************************************************************)
(* The environment                                                         *)
(***************************************************************************)

MarkChanged ==
    [c \in Calls |-> IF calls[c].pc = "idle" THEN calls[c]
                     ELSE [calls[c] EXCEPT !.changed = TRUE]]

\* a document is created or modified
WriteDoc(path, content, mtime) ==
    /\ vault[path] # [present |-> TRUE, content |-> content, mtime |-> mtime]
    /\ vault' = [vault EXCEPT ![path] =
                    [present |-> TRUE, content |-> content, mtime |-> mtime]]
    /\ calls' = MarkChanged
    /\ returned' = IdleCall
    /\ nChanges' = nChanges + 1
    /\ UNCHANGED <<now, fileIndex, lastIndexUpdate, searchCache, lastReturned,
                   nSearches, nTicks, nFailures, outside>>

\* a document is deleted
DeleteDoc(path) ==
    /\ vault[path].present
    /\ vault' = [vault EXCEPT ![path] = AbsentDoc]
    /\ calls' = MarkChanged
    /\ returned' = IdleCall
    /\ nChanges' = nChanges + 1
    /\ UNCHANGED <<now, fileIndex, lastIndexUpdate, searchCache, lastReturned,
                   nSearches, nTicks, nFailures, outside>>

\* time passes
Tick(d) ==
    /\ now' = now + d
    /\ nTicks' = nTicks + 1
    /\ returned' = IdleCall
    /\ UNCHANGED <<vault, fileIndex, lastIndexUpdate, searchCache, calls,
                   lastReturned, nSearches, nChanges, nFailures, outside>>

(***************************************************************************)
(* Specifications.  Each bounds the environment: how many calls are made,  *)
(* how often the vault changes, reads fail and the clock advances.         *)
(***************************************************************************)

\* Spec: the scan.  Calls of every query and limit, one at a time, over any
\* vault, which may change while a call is suspended and whose reads and
\* enumeration may fail; the clock stands still.
Next ==
    \/ \E q \in Queries, n \in Limits, e \in BOOLEAN :
           nSearches < MaxSearches /\ Start(1, q, n, e)
    \/ \E c \in Calls, pos \in 1..CONTENT_SEARCH_BATCH_SIZE, ok \in BOOLEAN :
           (ok \/ nFailures < MaxReadFailures) /\ ReadSettles(c, pos, ok)
    \/ \E p \in Paths, k \in Contents, m \in MTimes :
           nChanges < MaxVaultChanges /\ WriteDoc(p, k, m)
    \/ \E p \in Paths :
           nChanges < MaxVaultChanges /\ DeleteDoc(p)

Spec == Init /\ [][Next]_vars

\* SpecCache: the cache and the index over time.  Calls of one query with
\* every limit, which may overlap, over a vault that starts with every
\* document; the clock advances and the vault changes between and during
\* the calls; no read and no enumeration fails.
NextCache ==
    \/ \E c \in Calls, n \in Limits :
           nSearches < MaxCacheSearches /\ Start(c, <<"a">>, n, TRUE)
    \/ \E c \in Calls, pos \in 1..CONTENT_SEARCH_BATCH_SIZE :
           ReadSettles(c, pos, TRUE)
    \/ \E p \in Paths, k \in Contents, m \in MTimes :
           nChanges < MaxVaultChanges /\ WriteDoc(p, k, m)
    \/ \E p \in Paths :
           nChanges < MaxVaultChanges /\ DeleteDoc(p)
    \/ \E d \in TickSizes :
           nTicks < MaxTicks /\ Tick(d)

SpecCache == InitCache /\ [][NextCache]_vars

\* SpecEvict: the cache under more keys than it holds.  Calls of the cache
\* queries with every cache limit, which may overlap, over one vault that
\* does not change; the clock stands still, so every entry stays fresh.
EvictVault ==
    [p \in Paths |-> [present |-> TRUE, content |-> <<"*", "A", "*">>, mtime |-> 1]]

InitEvict == vault = EvictVault /\ InitService /\ InitOutside

NextEvict ==
    \/ \E c \in Calls, q \in CacheQueries, n \in CacheLimits :
           nSearches < MaxEvictSearches /\ Start(c, q, n, TRUE)
    \/ \E c \in Calls, pos \in 1..CONTENT_SEARCH_BATCH_SIZE :
           ReadSettles(c, pos, TRUE)

SpecEvict == InitEvict /\ [][NextEvict]_vars

\* SpecExpire: the same cache while time passes, so that entries expire and
\* their keys are written again.  One call at a time.
NextExpire ==
    \/ \E q \in CacheQueries, n \in Limits :
           nSearches < MaxEvictSearches /\ Start(1, q, n, TRUE)
    \/ \E c \in Calls, pos \in 1..CONTENT_SEARCH_BATCH_SIZE :
           ReadSettles(c, pos, TRUE)
    \/ \E d \in TickSizes :
           nTicks < MaxTicks /\ Tick(d)

SpecExpire == InitEvict /\ [][NextExpire]_vars

(***************************************************************************)
(* The text functions on their own                                         *)
(***************************************************************************)

\* n letters without a newline
Filler(n) == [k \in 1..n |-> "x"]

\* what stands before the match: nothing, text on the line of the match
\* (short, and longer than the context), earlier lines (short, of just
\* more than the context, and after a blank line so that the excerpt
\* starts inside the run of newlines)
SnippetBefore ==
    { <<>>, <<"x">>, <<" ">>, <<"x", "x", NL>>, <<NL, NL>>,
      Filler(SNIPPET_CONTEXT_LENGTH + 1),
      Filler(SNIPPET_CONTEXT_LENGTH + 1) \o <<NL>>,
      <<"x", NL, NL>> \o Filler(SNIPPET_CONTEXT_LENGTH - 2) \o <<NL>> }

\* what stands after the match, likewise
SnippetAfter ==
    { <<>>, <<"x">>, <<" ">>, <<NL, "x", "x">>, <<NL, NL>>, <<NL, NL, "x">>,
      Filler(SNIPPET_CONTEXT_LENGTH + 1),
      <<NL>> \o Filler(SNIPPET_CONTEXT_LENGTH - 2) \o <<NL, NL, "x">> }

SnippetQueries == { <<"a">>, <<"a", "b">> }

\* getContextSnippet's arguments as searchInFiles passes them: a content,
\* the offset of a match in it, the query
SnippetProbes ==
    { [fn |-> "getContextSnippet", done |-> FALSE,
       content |-> b \o <<"a", "b">> \o a, matchIndex |-> Len(b),
       query |-> q, out |-> <<>>] :
      b \in SnippetBefore, a \in SnippetAfter, q \in SnippetQueries }

\* alt texts and urls without markdown markup
PlainAlts == { <<>>, <<"a">>, <<"a", "l", "t">>, <<"a", " ", "b">>, <<"x", "1">> }

PlainUrls == { <<"u">>, <<"i", "m", "g", ".", "p", "n", "g">>, <<"a", "/", "b">> }

\* alt texts and urls with characters the rules rewrite
MarkedAlts ==
    { <<"a", "_", "b", "_", "c">>, <<"*", "a", "*">>, <<"a", "_", "1">>,
      <<"#", " ", "a">>, <<"-", " ", "a">> }

MarkedUrls ==
    { <<"b", "_", "2">>, <<"a", "_", "b", "_", "c">>, <<"*", "*">>,
      <<"u", "(", "1", ")">> }

ImageText(alt, url) == <<"!", "[">> \o alt \o <<"]", "(">> \o url \o <<")">>

StripProbes ==
    { [fn |-> "stripMarkdown", done |-> FALSE, alt |-> a, url |-> u,
       text |-> ImageText(a, u), out |-> <<>>] :
      a \in PlainAlts \cup MarkedAlts, u \in PlainUrls \cup MarkedUrls }

\* const snippet = this.getContextSnippet(strippedContent, index, query)
ApplySnippet ==
    /\ probe.fn = "getContextSnippet" /\ ~probe.done
    /\ probe' = [probe EXCEPT
                     !.done = TRUE,
                     !.out = getContextSnippet(probe.content, probe.matchIndex,
                                               probe.query)]
    /\ UNCHANGED <<vault, now, fileIndex, lastIndexUpdate, searchCache, calls,
                   returned, lastReturned, nSearches, nTicks, nChanges,
                   nFailures, window, ipc, plugin>>

\* const strippedContent = this.stripMarkdown(content)
ApplyStrip ==
    /\ probe.fn = "stripMarkdown" /\ ~probe.done
    /\ probe' = [probe EXCEPT !.done = TRUE, !.out = stripMarkdown(probe.text)]
    /\ UNCHANGED <<vault, now, fileIndex, lastIndexUpdate, searchCache, calls,
                   returned, lastReturned, nSearches, nTicks, nChanges,
                   nFailures, window, ipc, plugin>>

EmptyVault == [p \in Paths |-> AbsentDoc]

InitText ==
    /\ vault = EmptyVault /\ InitService
    /\ window = InitWindow /\ ipc = InitIpc /\ plugin = InitPlugin
    /\ probe \in SnippetProbes \cup StripProbes

NextText == ApplySnippet \/ ApplyStrip

SpecText == InitText /\ [][NextText]_vars

(***************************************************************************)
(* The search window: the list of result items and the selection.  items   *)
(* is the data-path of each .result-item in document order, selected the   *)
(* indexes of the items that carry the class selected, opened the path     *)
(* last handed to api.openFile (error: the handler threw instead).         *)
(***************************************************************************)

\* the result lists that arrive: up to three results of distinct paths
ResultLists ==
    {<<>>} \cup {<<p>> : p \in Paths}
    \cup {l \in [1..2 -> Paths] : l[1] # l[2]}
    \cup {l \in [1..3 -> Paths] : Cardinality({l[k] : k \in 1..3}) = 3}

\* an ArrowDown that stops one item too late
ArrowDownIndexLate(selectedIndex, n) == Min(selectedIndex + 1, n)

\* Math.min(selectedIndex + 1, items.length - 1)
ArrowDownIndex(selectedIndex, n) == Min(selectedIndex + 1, n - 1)

\* Math.max(selectedIndex - 1, 0)
ArrowUpIndex(selectedIndex) == Max(selectedIndex - 1, 0)

\* items[index].dataset.path; error where items[index] is undefined
ItemPath(items, index) ==
    IF index \in 0..(Len(items) - 1) THEN items[index + 1] ELSE "error"

\* showPreview(filePath, fileName): the pane shows the loading text and
\* get-file-preview is sent
showPreview(w, path) ==
    [w EXCEPT !.preview = "loading", !.requests = Append(@, path)]

\* hidePreview()
hidePreview(w) == [w EXCEPT !.preview = "empty"]

\* api.onFilePreview((data) => ...): the pane shows what the reply carries
onFilePreview(w, path) == [w EXCEPT !.preview = path]

\* updateSelection: the class goes to the item at selectedIndex, if there
\* is one, and is taken from the others; the item's preview is requested
updateSelection(w, index) ==
    LET sel == [w EXCEPT !.selectedIndex = index,
                         !.selected = {k \in 0..(Len(w.items) - 1) : k = index}]
    IN  IF index \in 0..(Len(w.items) - 1)
        THEN showPreview(sel, w.items[index + 1])
        ELSE sel

\* displayResults(matches)
displayResults(w, matches) ==
    LET shown == [w EXCEPT !.selectedIndex = 0,
                           !.items = matches,
                           !.selected = IF matches = <<>> THEN {} ELSE {0}]
    IN  IF matches = <<>> THEN hidePreview(shown)
        ELSE showPreview(shown, matches[1])

WindowStep(w) ==
    /\ window' = w
    /\ UNCHANGED <<vault, now, fileIndex, lastIndexUpdate, searchCache, calls,
                   returned, lastReturned, nSearches, nTicks, nChanges,
                   nFailures, probe, ipc, plugin>>

\* api.onSearchResults, api.onRecentFiles: a result list arrives
ResultsArrive(matches) ==
    WindowStep(displayResults(window, matches))

\* keydown ArrowDown
ArrowDown ==
    WindowStep(updateSelection(window,
                   ArrowDownIndex(window.selectedIndex, Len(window.items))))

\* keydown ArrowUp
ArrowUp ==
    WindowStep(updateSelection(window, ArrowUpIndex(window.selectedIndex)))

\* keydown Enter with items.length > 0
Enter ==
    /\ Len(window.items) > 0
    /\ WindowStep([window EXCEPT
                       !.opened = ItemPath(window.items, window.selectedIndex)])

\* a click on the item with data-index index
Click(index) ==
    /\ index \in 0..(Len(window.items) - 1)
    /\ IF index = window.selectedIndex
       THEN WindowStep([window EXCEPT !.opened = ItemPath(window.items, index)])
       ELSE WindowStep(showPreview(updateSelection(window, index),
                                   ItemPath(window.items, index)))

\* the reply to the k-th get-file-preview message not yet answered arrives
PreviewArrives(k) ==
    /\ k \in 1..Len(window.requests)
    /\ WindowStep([onFilePreview(window, window.requests[k]) EXCEPT
                       !.requests = SubSeq(@, 1, k - 1)
                                    \o SubSeq(@, k + 1, Len(@))])

\* the get-file-preview messages not yet answered
MaxPending == 2

InitWindowSpec ==
    /\ vault = EmptyVault /\ InitService
    /\ window = InitWindow /\ probe = NoProbe /\ ipc = InitIpc
    /\ plugin = RunningPlugin

NextWindow ==
    \/ \E m \in ResultLists :
           Len(window.requests) < MaxPending /\ ResultsArrive(m)
    \/ Len(window.requests) < MaxPending /\ ArrowDown
    \/ Len(window.requests) < MaxPending /\ ArrowUp
    \/ Enter
    \/ \E k \in 0..2 : Len(window.requests) < MaxPending /\ Click(k)
    \/ \E k \in 1..(MaxPending + 1) : PreviewArrives(k)

SpecWindow == InitWindowSpec /\ [][NextWindow]_vars

(***************************************************************************)
(* The search field of the window.  The timer of updateResults fires some  *)
(* time after it was set, unless clearTimeout cancelled it.                *)
(***************************************************************************)

\* the search-content messages of a behaviour
MaxSent == 2

\* the get-recent-files messages of a behaviour
MaxRecent == 3

\* what the search field holds
InputTexts == { <<>>, <<"a">>, <<"a", "b">>, <<" ">>, <<"a", " ">> }

\* updateResults(): an empty query asks for the recent files and returns;
\* another one replaces the pending timer by one for this query
updateResults(w) ==
    LET query == Trim(w.input)
    IN  IF query = <<>>
        THEN [w EXCEPT !.nRecent = @ + 1]
        ELSE [w EXCEPT !.searchTimeout = query]

\* the input event of the search field
Input(text) ==
    /\ text # window.input
    /\ WindowStep(updateResults([window EXCEPT !.input = text]))

\* api.onResetSearch
ResetSearch ==
    WindowStep(updateResults([window EXCEPT !.input = <<>>]))

\* the callback of the timer: api.searchContent(query)
SearchTimerFires ==
    /\ window.searchTimeout # "none"
    /\ WindowStep([window EXCEPT !.sent = Append(@, window.searchTimeout),
                                 !.searchTimeout = "none"])

NextInput ==
    \/ \E text \in InputTexts :
           (Trim(text) # <<>> \/ window.nRecent < MaxRecent) /\ Input(text)
    \/ window.nRecent < MaxRecent /\ ResetSearch
    \/ Len(window.sent) < MaxSent /\ SearchTimerFires

SpecInput == InitWindowSpec /\ [][NextInput]_vars

(***************************************************************************)
(* ElectronService: the listeners of the messages the search window sends. *)
(* A search-content message restarts the debounce timer; the timer's       *)
(* callback calls searchInFiles and, when the call settles, sends the      *)
(* search-results reply, which the window displays.                        *)
(***************************************************************************)

\* private static readonly SEARCH_DEBOUNCE_MS = 50
SEARCH_DEBOUNCE_MS == 50

\* this.plugin.settings.maxSearchResults || 50, scaled
MaxResults == 1

\* the search-content messages of a behaviour
MaxMessages == 3

\* the clock advances of a behaviour
MaxIpcTicks == 4

\* the clock advances by one of these (ms) between events
DebounceSteps == {10, 40}

\* the queries the messages carry: one whose search returns at once (the
\* file-name hits fill the limit) and one whose search reads documents
IpcQueries == { <<"a">>, <<" ", " ", " ">> }

\* every document holds three spaces
IpcVault ==
    [p \in Paths |->
        [present |-> TRUE, content |-> <<"b", " ", " ", " ", "b">>, mtime |-> 1]]

\* what the timer's callback replies once the call has settled as cl:
\* event.reply('search-results', results), or [] from the catch
ReplyResults(cl) == IF cl.outcome = "returned" THEN cl.ret ELSE <<>>

PathSeq(results) == [k \in 1..Len(results) |-> results[k].path]

\* the reply for message m is sent and the window displays it
Replied(state, m) ==
    [state EXCEPT !.replies = Append(@, m), !.shown = m]

\* the step of activation c has been taken for message m: if the call has
\* settled the reply is sent and displayed, else the activation is
\* suspended for m
AfterSearchStep(state, c, m) ==
    IF returned'.pc = "done"
    THEN /\ ipc' = Replied([state EXCEPT !.owner[c] = 0], m)
         /\ window' = displayResults(window, PathSeq(ReplyResults(returned')))
    ELSE /\ ipc' = [state EXCEPT !.owner[c] = m]
         /\ UNCHANGED window

ServiceUnchanged ==
    UNCHANGED <<vault, now, fileIndex, lastIndexUpdate, searchCache, calls,
                returned, lastReturned, nSearches, nTicks, nChanges, nFailures>>

\* searchContentListener: clearTimeout(this.searchDebounceTimer) and a new
\* setTimeout(..., SEARCH_DEBOUNCE_MS) for this message
SearchContent(query) ==
    /\ ipc.windowOpen /\ plugin.attached
    /\ ipc' = [ipc EXCEPT
                  !.sent  = Append(@, [query |-> query, at |-> now]),
                  !.timer = <<Len(ipc.sent) + 1>>]
    /\ ServiceUnchanged
    /\ UNCHANGED <<window, probe, plugin>>

\* const maxResults = this.plugin.settings.maxSearchResults || 50
HandlerLimit(settings) ==
    IF settings.maxSearchResults = 0 THEN 50 ELSE settings.maxSearchResults

\* a timer with no delay
TimerDueAtOnce(at, t) == t >= at

\* setTimeout(..., SEARCH_DEBOUNCE_MS) at time at: the callback runs at t,
\* not before the delay has passed
TimerDue(at, t) == t >= at + SEARCH_DEBOUNCE_MS

\* the callback of setTimeout runs: searchInFiles(query, maxResults) up to
\* its first await or its return
TimerFires(c, enumOK) ==
    /\ ipc.timer # <<>>
    /\ TimerDue(ipc.sent[ipc.timer[1]].at, now)
    /\ StartCall(c, ipc.sent[ipc.timer[1]].query,
                 HandlerLimit(plugin.settings), enumOK)
    /\ AfterSearchStep([ipc EXCEPT !.timer = <<>>,
                                   !.invoked = Append(@, ipc.timer[1])],
                       c, ipc.timer[1])
    /\ UNCHANGED <<probe, plugin>>

\* a read of activation c settles; after the last one the call returns and
\* the callback replies
SearchReadSettles(c, pos) ==
    /\ ReadSettlesCall(c, pos, TRUE)
    /\ AfterSearchStep(ipc, c, ipc.owner[c])
    /\ UNCHANGED <<probe, plugin>>

InitIpcSpec ==
    /\ vault = IpcVault /\ InitService
    /\ window = InitWindow /\ probe = NoProbe /\ ipc = InitIpc
    /\ plugin = [RunningPlugin EXCEPT !.settings.maxSearchResults = MaxResults,
                                      !.saved.maxSearchResults = MaxResults]

NextIpc ==
    \/ \E q \in IpcQueries :
           Len(ipc.sent) < MaxMessages /\ SearchContent(q)
    \/ \E c \in Calls, e \in BOOLEAN : TimerFires(c, e)
    \/ \E c \in Calls, pos \in 1..CONTENT_SEARCH_BATCH_SIZE :
           SearchReadSettles(c, pos)
    \/ \E d \in DebounceSteps : nTicks < MaxIpcTicks /\ Tick(d)

SpecIpc == InitIpcSpec /\ [][NextIpc]_vars

(***************************************************************************)
(* The open-file and get-file-preview listeners.  A message argument is a  *)
(* JavaScript value: its type and, for a string, its characters.           *)
(***************************************************************************)

\* the open-file and get-file-preview messages of a behaviour
MaxRequests == 2

Str(text) == [type |-> "string", text |-> text]

\* the arguments the messages carry: the paths of the vault's documents, a
\* path that names no file, the empty string, paths that hold two dots, and
\* values that are not strings (undefined, a number other than 0)
PathChars(p) == Basename(p) \o <<".", "m", "d">>

BadStrings ==
    { <<>>, <<".", ".", "/", "a", ".", "m", "d">>, <<"a", ".", ".", "m", "d">> }

PathArgs ==
    {Str(PathChars(p)) : p \in Paths}
    \cup {Str(<<"x", ".", "m", "d">>)}
    \cup {Str(t) : t \in BadStrings}
    \cup {[type |-> "undefined", text |-> <<>>], [type |-> "number", text |-> <<>>]}

\* !filePath: the empty string and undefined are falsy, the number is not
Falsy(arg) == arg.type = "undefined" \/ (arg.type = "string" /\ arg.text = <<>>)

\* a test that lets every string through
InvalidPathStringsPass(arg) == Falsy(arg) \/ arg.type # "string"

\* !filePath || typeof filePath !== 'string' || filePath.includes('..')
InvalidPath(arg) ==
    \/ Falsy(arg)
    \/ arg.type # "string"
    \/ IndexOf(arg.text, <<".", ".">>) # -1

\* this.app.vault.getAbstractFileByPath(filePath) instanceof TFile: the
\* documents of that path (none or one)
FilesAt(v, arg) == {p \in Paths : v[p].present /\ PathChars(p) = arg.text}

\* { path: filePath, content: '', html: '', imageData: {} }
EmptyPreview(arg) ==
    [path |-> arg, content |-> <<>>, imageData |-> {}, empty |-> TRUE]

\* how the read and the rendering of a preview end
PreviewOutcomes == {"ok", "readFails", "renderFails"}

\* the local images of a rendered document
DocImages == {"i.png", "j.png"}

\* no reply when the read or the rendering fails
FilePreviewRepliesSilentFailure(v, arg, outcome, failing) ==
    IF InvalidPath(arg) \/ FilesAt(v, arg) = {}
    THEN <<EmptyPreview(arg)>>
    ELSE IF outcome # "ok"
    THEN <<>>
    ELSE LET p == CHOOSE q \in FilesAt(v, arg) : TRUE
         IN  <<[path |-> arg, content |-> v[p].content,
                imageData |-> DocImages \ failing, empty |-> FALSE]>>

\* the file-preview replies of getFilePreviewListener to a message with
\* argument arg; failing: the images whose conversion fails
FilePreviewReplies(v, arg, outcome, failing) ==
    IF InvalidPath(arg) \/ FilesAt(v, arg) = {}
    THEN <<EmptyPreview(arg)>>
    ELSE IF outcome # "ok"
    THEN <<EmptyPreview(arg)>>
    ELSE LET p == CHOOSE q \in FilesAt(v, arg) : TRUE
         IN  <<[path |-> arg, content |-> v[p].content,
                imageData |-> DocImages \ failing, empty |-> FALSE]>>

Handled(state, channel, arg) ==
    [state EXCEPT !.nRequests = @ + 1,
                  !.request = [channel |-> channel, arg |-> arg]]

\* openFileListener
OpenFile(arg) ==
    /\ ipc.windowOpen /\ plugin.attached
    /\ ServiceUnchanged
    /\ UNCHANGED <<window, probe, plugin>>
    /\ LET state == Handled(ipc, "open-file", arg)
       IN  IF InvalidPath(arg)
           THEN ipc' = state
           ELSE ipc' = [state EXCEPT
                           !.openedFile =
                               IF FilesAt(vault, arg) = {} THEN @
                               ELSE CHOOSE p \in FilesAt(vault, arg) : TRUE,
                           !.windowOpen = FALSE]

\* getFilePreviewListener, from the message to its reply
GetFilePreview(arg, outcome, failing) ==
    /\ ipc.windowOpen /\ plugin.attached
    /\ ServiceUnchanged
    /\ UNCHANGED <<window, probe, plugin>>
    /\ LET state == [Handled(ipc, "get-file-preview", arg) EXCEPT
                        !.request = [channel |-> "get-file-preview",
                                     arg |-> arg, outcome |-> outcome,
                                     failing |-> failing]]
           files == IF InvalidPath(arg) THEN {} ELSE FilesAt(vault, arg)
       IN  ipc' = [state EXCEPT
                      !.previewReads =
                          IF files = {} THEN @
                          ELSE Append(@, CHOOSE q \in files : TRUE),
                      !.previewReplies =
                          @ \o FilePreviewReplies(vault, arg, outcome, failing)]

InitFiles ==
    /\ vault \in InitVaults /\ InitService
    /\ window = InitWindow /\ probe = NoProbe /\ ipc = InitIpc
    /\ plugin = RunningPlugin

NextFiles ==
    \/ \E a \in PathArgs : ipc.nRequests < MaxRequests /\ OpenFile(a)
    \/ \E a \in PathArgs, o \in PreviewOutcomes, f \in SUBSET DocImages :
           ipc.nRequests < MaxRequests /\ GetFilePreview(a, o, f)

SpecFiles == InitFiles /\ [][NextFiles]_vars

(***************************************************************************)
(* The life of the plugin: initialize() and its timer, the global hotkey,  *)
(* cleanup().  globalShortcut.register returns true (ok), returns false    *)
(* (refused: the accelerator is taken) or throws (the accelerator is not   *)
(* valid); globalShortcut.unregister does not throw.                       *)
(***************************************************************************)

\* private static readonly ELECTRON_INIT_DELAY = 1000
ELECTRON_INIT_DELAY == 1000

\* the clock advances of a behaviour of the plugin
MaxPluginTicks == 3

\* the calls of globalShortcut.register of a behaviour
MaxRegisters == 3

\* the clock advances by one of these (ms)
PluginSteps == {SEARCH_DEBOUNCE_MS, ELECTRON_INIT_DELAY}

\* the values the hotkey setting takes
Hotkeys == {"CommandOrControl+Shift+O", "Alt+S", ""}

RegisterOutcomes == {"ok", "refused", "throws"}

\* a register that leaves the old accelerator registered
registerGlobalHotkeyKeepingOld(pl, outcome) ==
    IF ~pl.electron THEN pl
    ELSE IF outcome = "ok"
    THEN [pl EXCEPT !.registered = @ \cup {pl.settings.globalHotkey},
                    !.registeredHotkey = pl.settings.globalHotkey,
                    !.nRegisters = @ + 1, !.lastRegister = outcome]
    ELSE [pl EXCEPT !.registeredHotkey = "null",
                    !.nRegisters = @ + 1, !.lastRegister = outcome]

\* registerGlobalHotkey(): nothing without globalShortcut; else the old
\* accelerator is unregistered, the setting's registered, and
\* registeredHotkey is the setting on success and null otherwise
registerGlobalHotkey(pl, outcome) ==
    IF ~pl.electron THEN pl
    ELSE LET kept == IF pl.registeredHotkey # "null"
                     THEN pl.registered \ {pl.registeredHotkey}
                     ELSE pl.registered
         IN  IF outcome = "ok"
             THEN [pl EXCEPT !.registered = kept \cup {pl.settings.globalHotkey},
                             !.registeredHotkey = pl.settings.globalHotkey,
                             !.nRegisters = @ + 1, !.lastRegister = outcome]
             ELSE [pl EXCEPT !.registered = kept,
                             !.registeredHotkey = "null",
                             !.nRegisters = @ + 1, !.lastRegister = outcome]

\* unregisterGlobalHotkey()
unregisterGlobalHotkey(pl) ==
    IF pl.electron /\ pl.registeredHotkey # "null"
    THEN [pl EXCEPT !.registered = @ \ {pl.registeredHotkey},
                    !.registeredHotkey = "null"]
    ELSE pl

\* if (this.searchWindow && !this.searchWindow.isDestroyed())
\*     this.searchWindow.close()
\* close() destroys the window; its 'closed' event is delivered later
closeIfOpen(pl) ==
    IF pl.searchWindow # 0 /\ pl.windows[pl.searchWindow] = "open"
    THEN [pl EXCEPT !.windows[pl.searchWindow] = "closing"]
    ELSE pl

\* closeSearchWindow(): the same, and the reference is cleared
closeSearchWindow(pl) ==
    IF pl.searchWindow # 0 /\ pl.windows[pl.searchWindow] = "open"
    THEN [pl EXCEPT !.windows[pl.searchWindow] = "closing", !.searchWindow = 0]
    ELSE pl

\* createSearchWindow(html): this.searchWindow = new BrowserWindow(...)
createSearchWindow(pl) ==
    [pl EXCEPT !.windows = Append(@, "open"),
               !.searchWindow = Len(pl.windows) + 1]

\* initialize(): setTimeout(() => initializeElectron(), ELECTRON_INIT_DELAY)
Initialize ==
    /\ plugin.initTimer = "unset"
    /\ plugin' = [plugin EXCEPT !.initTimer = "pending", !.initAt = now]
    /\ ServiceUnchanged
    /\ UNCHANGED <<window, probe, ipc>>

\* the timer's callback, initializeElectron(): with the Electron API (api)
\* it keeps it, registers the hotkey and attaches the listeners
InitTimerFires(api, outcome) ==
    /\ plugin.initTimer = "pending"
    /\ now >= plugin.initAt + ELECTRON_INIT_DELAY
    /\ plugin' =
           IF api
           THEN [registerGlobalHotkey(
                     [plugin EXCEPT !.initTimer = "fired", !.electron = TRUE],
                     outcome)
                 EXCEPT !.attached = TRUE]
           ELSE [plugin EXCEPT !.initTimer = "fired"]
    /\ ServiceUnchanged
    /\ UNCHANGED <<window, probe, ipc>>

\* the hotkey field of the settings tab changes: the setting is set and
\* saved and registerGlobalHotkey() is called
ChangeHotkey(value, outcome) ==
    /\ ~plugin.unloaded
    /\ plugin.initTimer # "unset"
    /\ LET set == [plugin.settings EXCEPT !.globalHotkey = value]
       IN  plugin' = registerGlobalHotkey(
                         [plugin EXCEPT !.settings = set, !.saved = set],
                         outcome)
    /\ ServiceUnchanged
    /\ UNCHANGED <<window, probe, ipc>>

\* onunload: cleanup() unregisters the hotkey, removes the listeners it
\* finds and closes the search window
Cleanup ==
    /\ ~plugin.unloaded
    /\ plugin.initTimer # "unset"
    /\ plugin' = [closeIfOpen(unregisterGlobalHotkey(plugin))
                  EXCEPT !.attached = IF plugin.electron THEN FALSE ELSE @,
                         !.unloaded = TRUE,
                         !.searchesAtUnload = nSearches]
    /\ ipc' = [ipc EXCEPT !.windowOpen = IF plugin.electron THEN FALSE ELSE @]
    /\ ServiceUnchanged
    /\ UNCHANGED <<window, probe>>

(***************************************************************************)
(* The search windows.  The events of a window reach the handlers that     *)
(* createSearchWindow attached to it some time after their cause.          *)
(***************************************************************************)

\* the windows created in a behaviour
MaxWindows == 3

\* the blur events of a behaviour
MaxBlurs == 2

\* openSearchModal(): closeSearchWindow(); createSearchWindow()
OpenSearchModal ==
    /\ plugin.electron /\ ~plugin.unloaded
    /\ plugin' = createSearchWindow(closeSearchWindow(plugin))
    /\ ServiceUnchanged
    /\ UNCHANGED <<window, probe, ipc>>

\* the open window w loses the focus
LoseFocus(w) ==
    /\ w \in 1..Len(plugin.windows)
    /\ plugin.windows[w] = "open" /\ w \notin plugin.blurs
    /\ plugin' = [plugin EXCEPT !.blurs = @ \cup {w}, !.nBlurs = @ + 1]
    /\ ServiceUnchanged
    /\ UNCHANGED <<window, probe, ipc>>

\* the handler of 'blur' that was attached to window w
BlurDelivered(w) ==
    /\ w \in plugin.blurs
    /\ plugin' = [closeIfOpen(plugin) EXCEPT !.blurs = @ \ {w}]
    /\ ServiceUnchanged
    /\ UNCHANGED <<window, probe, ipc>>

\* the handler of 'closed' that was attached to window w
ClosedDelivered(w) ==
    /\ w \in 1..Len(plugin.windows)
    /\ plugin.windows[w] = "closing"
    /\ plugin' = [plugin EXCEPT !.windows[w] = "closed", !.searchWindow = 0]
    /\ ServiceUnchanged
    /\ UNCHANGED <<window, probe, ipc>>

\* closeWindowListener, and the end of openFileListener
CloseWindow ==
    /\ plugin.attached
    /\ \E w \in 1..Len(plugin.windows) : plugin.windows[w] = "open"
    /\ plugin' = [closeIfOpen(plugin) EXCEPT !.nCloses = @ + 1]
    /\ ServiceUnchanged
    /\ UNCHANGED <<window, probe, ipc>>

InitWindows ==
    /\ vault = IpcVault /\ InitService
    /\ window = InitWindow /\ probe = NoProbe /\ ipc = InitIpc
    /\ plugin = RunningPlugin

NextWindows ==
    \/ Len(plugin.windows) < MaxWindows /\ OpenSearchModal
    \/ \E w \in 1..MaxWindows : plugin.nBlurs < MaxBlurs /\ LoseFocus(w)
    \/ \E w \in 1..MaxWindows : BlurDelivered(w)
    \/ \E w \in 1..MaxWindows : ClosedDelivered(w)
    \/ plugin.nCloses < MaxBlurs /\ CloseWindow
    \/ Cleanup

SpecWindows == InitWindows /\ [][NextWindows]_vars

(***************************************************************************)
(* The hotkey recorder of the settings tab.  A session is a call of        *)
(* startRecording that did not return at once; its handler and its timer   *)
(* carry its number.                                                       *)
(***************************************************************************)

\* the recording sessions of a behaviour
MaxSessions == 3

\* a key press: a modifier key alone, a key without modifiers, a key with
\* modifiers
KeyKinds == {"modifier", "plain", "combo"}

\* the combination a key press with modifiers gives
RecordedHotkey == "Alt+S"

\* stopRecording(inputEl, buttonEl, handler), handler being that of session n
stopRecording(pl, n) ==
    [pl EXCEPT !.isRecording = FALSE,
               !.handlers = @ \ {n},
               !.lastEnd = IF pl.isRecording
                           THEN [session |-> pl.nSessions, by |-> n]
                           ELSE @]

RECURSIVE StopAll(_, _)
StopAll(pl, sessions) ==
    IF sessions = {} THEN pl
    ELSE LET n == CHOOSE m \in sessions : \A k \in sessions : m <= k
         IN  StopAll(stopRecording(pl, n), sessions \ {n})

\* startRecording(inputEl, buttonEl)
StartRecording ==
    /\ ~plugin.isRecording
    /\ LET n == plugin.nSessions + 1
       IN  plugin' = [plugin EXCEPT !.isRecording = TRUE,
                                    !.nSessions = n,
                                    !.handlers = @ \cup {n},
                                    !.timers = @ \cup {n}]
    /\ ServiceUnchanged
    /\ UNCHANGED <<window, probe, ipc>>

\* a keydown on the hotkey input: every attached handler runs.  A modifier
\* key alone changes nothing; a key without modifiers stops the recording;
\* a key with modifiers sets the hotkey and awaits saveSettings
KeyPress(kind) ==
    /\ plugin.handlers # {}
    /\ plugin' =
           IF kind = "modifier" THEN [plugin EXCEPT !.nKeys = @ + 1]
           ELSE IF kind = "plain"
           THEN [StopAll(plugin, plugin.handlers) EXCEPT !.nKeys = @ + 1]
           ELSE [plugin EXCEPT
                    !.settings.globalHotkey = RecordedHotkey,
                    !.saving = @ \cup plugin.handlers,
                    !.nKeys = @ + 1]
    /\ ServiceUnchanged
    /\ UNCHANGED <<window, probe, ipc>>

\* saveSettings settles in the handler of session n: the hotkey is
\* registered and the recording stopped
SaveSettles(n, outcome) ==
    /\ n \in plugin.saving
    /\ plugin' = stopRecording(
                     registerGlobalHotkey(
                         [plugin EXCEPT !.saving = @ \ {n},
                                        !.saved = plugin.settings],
                         outcome),
                     n)
    /\ ServiceUnchanged
    /\ UNCHANGED <<window, probe, ipc>>

\* the 10 s timer of session n; timers fire in the order they were set
RecordingTimeout(n) ==
    /\ n \in plugin.timers
    /\ \A m \in plugin.timers : n <= m
    /\ plugin' = IF plugin.isRecording
                 THEN stopRecording([plugin EXCEPT !.timers = @ \ {n}], n)
                 ELSE [plugin EXCEPT !.timers = @ \ {n}]
    /\ ServiceUnchanged
    /\ UNCHANGED <<window, probe, ipc>>

\* the key presses of a behaviour
MaxKeys == 3

NextRecording ==
    \/ plugin.nSessions < MaxSessions /\ StartRecording
    \/ \E kind \in KeyKinds : plugin.nKeys < MaxKeys /\ KeyPress(kind)
    \/ \E n \in 1..MaxSessions, o \in RegisterOutcomes : SaveSettles(n, o)
    \/ \E n \in 1..MaxSessions : RecordingTimeout(n)

SpecRecording == InitWindows /\ [][NextRecording]_vars

(***************************************************************************)
(* The max-results field of the settings tab                               *)
(***************************************************************************)

\* the edits of a behaviour
MaxEdits == 2

\* the texts the field takes: decimal numerals in and out of the range,
\* texts that are no numerals, and numerals followed or preceded by other
\* characters.  None starts with 0x, which parseInt reads as hexadecimal.
EntryTexts ==
    { <<>>, <<"a", "b", "c">>, <<"0">>, <<"1">>, <<"5", "0">>,
      <<"2", "0", "0">>, <<"2", "0", "1">>, <<"1", "2", "a", "b", "c">>,
      <<"1", "e", "3">>, <<"-", "5">>, <<" ", "7">>, <<"1", ".", "5">>,
      <<"a", "9">> }

DigitValue(c) == CHOOSE d \in 0..9 : DigitChars[d + 1] = c

RECURSIVE DecimalValue(_)
DecimalValue(digits) ==
    IF digits = <<>> THEN 0
    ELSE 10 * DecimalValue(SubSeq(digits, 1, Len(digits) - 1))
         + DigitValue(digits[Len(digits)])

NaN == [nan |-> TRUE, value |-> 0]

\* parseInt(value) for a text without the prefix 0x: leading white space is
\* skipped, a sign is read, then the longest run of decimal digits; what
\* follows is ignored, and without a digit the result is NaN
ParseInt(text) ==
    LET solid  == {k \in 1..Len(text) : text[k] \notin Whitespace}
        start  == IF solid = {} THEN Len(text) + 1
                  ELSE CHOOSE k \in solid : \A m \in solid : k <= m
        signed == start <= Len(text) /\ text[start] \in {"+", "-"}
        first  == IF signed THEN start + 1 ELSE start
        stops  == {k \in first..Len(text) : text[k] \notin Digits}
        last   == IF stops = {} THEN Len(text)
                  ELSE (CHOOSE k \in stops : \A m \in stops : k <= m) - 1
        digits == SubSeq(text, first, last)
    IN  IF digits = <<>> THEN NaN
        ELSE [nan |-> FALSE,
              value |-> IF signed /\ text[start] = "-"
                        THEN 0 - DecimalValue(digits)
                        ELSE DecimalValue(digits)]

\* a test without the upper end of the range
AcceptsMaxResultsNoUpper(num) == ~num.nan /\ num.value >= 1

\* !isNaN(num) && num >= 1 && num <= 200
AcceptsMaxResults(num) == ~num.nan /\ num.value >= 1 /\ num.value <= 200

\* onChange of the max-results field
EditMaxResults(value) ==
    /\ ~plugin.unloaded
    /\ LET num  == ParseInt(value)
           seen == [plugin EXCEPT !.nEdits = @ + 1, !.lastEntry = value]
       IN  plugin' =
               IF AcceptsMaxResults(num)
               THEN LET set == [plugin.settings EXCEPT
                                   !.maxSearchResults = num.value]
                    IN  [seen EXCEPT !.settings = set, !.saved = set]
               ELSE seen
    /\ ServiceUnchanged
    /\ UNCHANGED <<window, probe, ipc>>

NextSettings ==
    \/ \E value \in EntryTexts :
           plugin.nEdits < MaxEdits /\ EditMaxResults(value)
    \/ \E q \in IpcQueries : Len(ipc.sent) < MaxSent /\ SearchContent(q)
    \/ \E c \in Calls : TimerFires(c, TRUE)
    \/ \E c \in Calls, pos \in 1..CONTENT_SEARCH_BATCH_SIZE :
           SearchReadSettles(c, pos)
    \/ nTicks < MaxTicks /\ Tick(SEARCH_DEBOUNCE_MS)

SpecSettings == InitWindows /\ [][NextSettings]_vars

InitPluginSpec ==
    /\ vault = IpcVault /\ InitService
    /\ window = InitWindow /\ probe = NoProbe /\ ipc = InitIpc
    /\ plugin = InitPlugin

NextPlugin ==
    \/ Initialize
    \/ \E api \in BOOLEAN, o \in RegisterOutcomes : InitTimerFires(api, o)
    \/ \E h \in Hotkeys, o \in RegisterOutcomes :
           plugin.nRegisters < MaxRegisters /\ ChangeHotkey(h, o)
    \/ Cleanup
    \/ \E q \in IpcQueries : Len(ipc.sent) < 1 /\ SearchContent(q)
    \/ \E c \in Calls : TimerFires(c, TRUE)
    \/ \E c \in Calls, pos \in 1..CONTENT_SEARCH_BATCH_SIZE :
           SearchReadSettles(c, pos)
    \/ \E d \in PluginSteps : nTicks < MaxPluginTicks /\ Tick(d)

SpecPlugin == InitPluginSpec /\ [][NextPlugin]_vars

(***************************************************************************)
(* Properties of searchInFiles.  They are stated on `returned`, the        *)
(* activation that settled in the last step.                               *)
(***************************************************************************)

\* a call has just returned its results
Returned == returned.pc = "done" /\ returned.outcome = "returned"

\* a call that searched (a non-empty query, no usable cache entry) has just
\* returned
Missed == Returned /\ returned.query # <<>> /\ ~returned.hit

\* a cache-miss search of a fresh SearchService over the vault as it is
FreshSearch(query, limit) ==
    SeqSearch(vault, BuildIndex(vault), query, limit, {})

\* the documents of vault v that match the query by content
ContentMatching(v, query) ==
    {p \in Paths : v[p].present /\ ContentMatch(v[p].content, query).index # -1}

\* C1: a call returns at most limit results, from the cache or from a
\* search, and no cache entry holds more results than the limit of its key.
C1_LimitInvariant ==
    /\ Returned => Len(returned.ret) <= returned.limit
    /\ \A q \in Queries \ {<<>>}, n \in Limits :
           LET e == CacheGet(searchCache, CacheKey(q, n))
           IN  e # <<>> => Len(e[1].results) <= n

\* C1 witness: a cache hit returns limit results although more documents
\* than that match the query.
C1_Witness ==
    /\ Returned /\ returned.hit
    /\ Len(returned.ret) = returned.limit
    /\ Cardinality(ContentMatching(vault, returned.query)) > returned.limit

\* C2: the results a call returns are in non-increasing order of score.
C2_ScoreOrdering ==
    Returned =>
        \A k \in 1..(Len(returned.ret) - 1) :
            returned.ret[k].score >= returned.ret[k + 1].score

\* C2 witness: a search returns a content match found by the scan ahead of
\* a lower-scored file-name match found before it.
C2_Witness ==
    /\ Missed
    /\ Len(returned.ret) = 2
    /\ returned.ret[1].path = "c.md" /\ returned.ret[1].score = ContentScore
    /\ returned.ret[2].path = "ab.md" /\ returned.ret[2].score < ContentScore

\* C3: no two results a call returns have the same path.
C3_DedupInvariant ==
    Returned =>
        \A j, k \in 1..Len(returned.ret) :
            j # k => returned.ret[j].path # returned.ret[k].path

\* C3 witness: a search returns two results, one of them for a document
\* that matched by file name and then by content.
C3_Witness ==
    /\ Missed
    /\ Len(returned.ret) = 2
    /\ \E k \in 1..2 :
           /\ FuseDistance(returned.query, returned.ret[k].path) >= 0
           /\ returned.ret[k].snippet # <<>>

\* C4: a call with the empty query or with a query of whitespace only
\* returns the empty sequence.
C4_BlankQueryEmpty ==
    (Returned /\ Trim(returned.query) = <<>>) => returned.ret = <<>>

\* C5: a call that finds an entry for its key younger than CACHE_TTL
\* returns, without raising, the results the last search of that key
\* returned.
C5_FreshEntryReturned ==
    (returned.pc = "done" /\ returned.entry = "fresh") =>
        /\ returned.outcome = "returned"
        /\ returned.hit
        /\ returned.ret = returned.prior

\* C5 witness: a call returns the cached results of its key although a
\* search of the vault as it is now gives other results.
C5_Witness ==
    /\ Returned /\ returned.entry = "fresh"
    /\ returned.ret = returned.prior
    /\ returned.ret # FreshSearch(returned.query, returned.limit)

\* C6 as stated: a call that finds an entry for its key of age CACHE_TTL or
\* more, over a vault that does not change while it runs, does not use the
\* entry and returns what a fresh SearchService returns.
C6_ExpiredEqualsFresh ==
    (Returned /\ returned.entry = "expired" /\ ~returned.changed) =>
        /\ ~returned.hit
        /\ returned.ret = FreshSearch(returned.query, returned.limit)

\* C6 amended: such a call does not use the entry; its results are those
\* of a search of the vault as it is with the file-name index the service
\* held, and those of a fresh SearchService when the call rebuilt the index.
C6_ExpiredUsesHeldIndex ==
    (Returned /\ returned.entry = "expired" /\ ~returned.changed) =>
        /\ ~returned.hit
        /\ returned.ret = SeqSearch(vault, returned.items, returned.query,
                                    returned.limit, {})
        /\ returned.rebuilt =>
               returned.ret = FreshSearch(returned.query, returned.limit)

\* C6 witness: a call finds an expired entry, rebuilds the index and
\* returns other results than the last search of its key.
C6_Witness ==
    /\ Returned /\ returned.entry = "expired" /\ ~returned.changed
    /\ returned.rebuilt
    /\ returned.ret # returned.prior

\* C7: in the results of a search, the result of a document that matches
\* the query by file name and by content has a snippet and a score of
\* ContentScore or more.
C7_MergedResultComplete ==
    (Missed /\ ~returned.changed /\ returned.failed = {}) =>
        \A k \in 1..Len(returned.ret) :
            LET p == returned.ret[k].path
            IN  (/\ FuseDistance(returned.query, p) >= 0
                 /\ p \in ContentMatching(vault, returned.query))
                => /\ returned.ret[k].snippet # <<>>
                   /\ returned.ret[k].score >= ContentScore

\* C8: over a vault that does not change while it runs and with every read
\* succeeding, a search returns the results of the computation in which
\* the reads settle in batch order, whatever order they settled in.
C8_CompletionOrderIrrelevant ==
    (Missed /\ ~returned.changed /\ returned.failed = {}) =>
        returned.ret = SeqSearch(vault, returned.items, returned.query,
                                 returned.limit, {})

\* C8 witness: a search in which a read settled before one issued earlier
\* returns two content matches of one batch.
C8_Witness ==
    /\ Missed /\ ~returned.changed /\ returned.failed = {}
    /\ returned.outOfOrder
    /\ Len(returned.ret) = 2
    /\ \A k \in 1..2 :
           /\ FuseDistance(returned.query, returned.ret[k].path) < 0
           /\ returned.ret[k].score = ContentScore

\* C9: a search in which reads failed returns, without raising, the
\* results of the search in which the documents whose read failed are no
\* content match.
C9_ReadFailureIsNoMatch ==
    (returned.pc = "done" /\ returned.failed # {} /\ ~returned.changed) =>
        /\ returned.outcome = "returned"
        /\ returned.ret = SeqSearch(vault, returned.items, returned.query,
                                    returned.limit, returned.failed)

\* C9 witness: the read of a document that matches by content failed, and
\* the search returns a content match of another document scanned after it.
C9_Witness ==
    /\ Missed /\ ~returned.changed
    /\ \E f \in returned.failed, k \in 1..Len(returned.ret) :
           /\ f \in ContentMatching(vault, returned.query)
           /\ \A j \in 1..Len(returned.ret) : returned.ret[j].path # f
           /\ returned.ret[k].snippet # <<>>
           /\ returned.ret[k].path # f

\* C10: a call in which the enumeration of the documents fails returns the
\* empty sequence and does not raise.
C10_EnumerationFailureEmpty ==
    (returned.pc = "done" /\ returned.enumFailed) =>
        /\ returned.outcome = "returned"
        /\ returned.ret = <<>>

\* C11: the cache never holds more than MAX_CACHE_SIZE entries, whatever
\* calls overlap.
C11_CacheBounded == Len(searchCache) <= MAX_CACHE_SIZE

\* C11 witness: the cache is full after a search stored its results, and a
\* key that was stored earlier is no longer in it.
C11_Witness ==
    /\ Missed
    /\ Len(searchCache) = MAX_CACHE_SIZE
    /\ \E k \in Keys :
           /\ lastReturned[k] # <<>>
           /\ CacheGet(searchCache, CacheKey(k[1], k[2])) = <<>>

\* the keys of a cache in the order of their insertion
KeysOf(cache) == [k \in 1..Len(cache) |-> cache[k].key]

\* C12: a step in which a search stores results under a new key in a full
\* cache removes the first-inserted entry and no other, and appends the
\* new one; any other store removes nothing; a cache hit leaves the cache
\* and its order as they are.
C12_FifoEviction ==
    [][LET r      == returned'
           key    == CacheKey(r.query, r.limit)
           stored == /\ r.pc = "done" /\ r.outcome = "returned"
                     /\ r.query # <<>> /\ ~r.hit
           full   == /\ Len(searchCache) = MAX_CACHE_SIZE
                     /\ CacheGet(searchCache, key) = <<>>
       IN  /\ (r.pc = "done" /\ r.hit) => searchCache' = searchCache
           /\ (stored /\ full) =>
                  /\ KeysOf(searchCache') = Tail(KeysOf(searchCache)) \o <<key>>
                  /\ \A k \in 2..Len(searchCache) :
                         searchCache'[k - 1] = searchCache[k]
           /\ (stored /\ ~full) =>
                  \A k \in 1..Len(searchCache) :
                      \E j \in 1..Len(searchCache') :
                          searchCache'[j].key = searchCache[k].key
      ]_vars

\* C12 witness: a search has just stored, as the last entry of the full
\* cache, results under a key that was stored before and evicted since.
C12_Witness ==
    /\ Missed /\ returned.entry = "none" /\ returned.prior # <<>>
    /\ Len(searchCache) = MAX_CACHE_SIZE
    /\ searchCache[Len(searchCache)].key =
           CacheKey(returned.query, returned.limit)

\* queries and limits whose keys come close: separators and digits at the
\* end of the query, limits of one and two digits
NearQueries ==
    { <<"a">>, <<"a", ":">>, <<"a", ":", "1">>, <<"a", "1">>,
      <<"a", ":", "1", ":", "1">>, <<"1">> }

NearLimits == {1, 2, 11, 12}

\* distinct (query, limit) pairs have distinct keys
KeysDistinct ==
    \A q1, q2 \in NearQueries \cup CacheQueries, n1, n2 \in NearLimits \cup CacheLimits :
        <<q1, n1>> # <<q2, n2>> => CacheKey(q1, n1) # CacheKey(q2, n2)

\* C13: the entry found under the key of (query, limit) holds the results
\* of the last search of that same query and limit, a cache hit returns
\* those, and no two pairs have the same key.
C13_KeyInjective ==
    /\ KeysDistinct
    /\ \A k \in Keys :
           LET e == CacheGet(searchCache, CacheKey(k[1], k[2]))
           IN  e # <<>> => Len(e) = 1 /\ e[1].results = lastReturned[k]
    /\ (returned.pc = "done" /\ returned.hit) =>
           returned.ret = lastReturned[<<returned.query, returned.limit>>]

\* C13 witness: a call of a query with limit 1 returns its cached result
\* while the cache holds other results of the same query with limit 2.
C13_Witness ==
    /\ returned.pc = "done" /\ returned.hit /\ returned.limit = 1
    /\ LET other == CacheGet(searchCache, CacheKey(returned.query, 2))
       IN  other # <<>> /\ other[1].results # returned.ret

\* the documents of vault v
Present(v) == {p \in Paths : v[p].present}

\* C14: the index never holds more than MAX_INDEX_SIZE documents, and the
\* index a call rebuilt holds each of its documents once, as many documents
\* of the vault as fit, and none that is older than a document left out.
C14_IndexMostRecent ==
    /\ Len(fileIndex.items) <= MAX_INDEX_SIZE
    /\ (returned.pc = "done" /\ returned.rebuilt /\ ~returned.changed) =>
           LET items == returned.items
               kept  == {items[k] : k \in 1..Len(items)}
           IN  /\ Cardinality(kept) = Len(items)
               /\ kept \subseteq Present(vault)
               /\ Len(items) = Min(MAX_INDEX_SIZE, Cardinality(Present(vault)))
               /\ \A p \in kept, q \in Present(vault) \ kept :
                      vault[q].mtime <= vault[p].mtime

\* C14 witness: a call rebuilt the index over a vault of more than
\* MAX_INDEX_SIZE documents; the index leaves out a document that the vault
\* lists ahead of a more recent one it keeps.
C14_Witness ==
    /\ returned.pc = "done" /\ returned.rebuilt /\ ~returned.changed
    /\ Cardinality(Present(vault)) > MAX_INDEX_SIZE
    /\ returned.items[1] = "c.md"
    /\ "ab.md" \in Present(vault) \ {returned.items[k] : k \in 1..Len(returned.items)}
    /\ vault["ab.md"].mtime < vault["c.md"].mtime

\* C15: a step in which a call reaches updateFileIndex replaces the index
\* by one built from the vault as it is, and sets lastIndexUpdate to the
\* time, if there is no index or it is INDEX_UPDATE_INTERVAL old or older;
\* otherwise, and in every other step, both stay as they are.
C15_RebuildPolicy ==
    [][LET r      == returned'
           called == /\ nSearches' # nSearches
                     /\ ~(r.pc = "done" /\ (r.hit \/ r.query = <<>> \/ r.enumFailed))
           stale  == \/ ~fileIndex.built
                     \/ now - lastIndexUpdate >= INDEX_UPDATE_INTERVAL
       IN  IF called /\ stale
           THEN /\ fileIndex' = [built |-> TRUE, items |-> BuildIndex(vault)]
                /\ lastIndexUpdate' = now
           ELSE UNCHANGED <<fileIndex, lastIndexUpdate>>
      ]_vars

\* C15 witness: a search has run with the index it found, younger than
\* INDEX_UPDATE_INTERVAL, although the vault has changed since it was built.
C15_Witness ==
    /\ Missed /\ ~returned.rebuilt /\ ~returned.changed
    /\ now - lastIndexUpdate < INDEX_UPDATE_INTERVAL
    /\ fileIndex.items = returned.items
    /\ fileIndex.items # BuildIndex(vault)

\* the start of the line that holds offset m of content c: the greatest
\* offset up to m that is 0 or follows a newline
LineStartRef(c, m) ==
    CHOOSE k \in 0..m :
        /\ k = 0 \/ c[k] = NL
        /\ \A j \in (k + 1)..m : c[j] # NL

\* the end of the line that holds offset m of content c: the least offset
\* from m on that is the length of c or holds a newline
LineEndRef(c, m) ==
    CHOOSE k \in m..Len(c) :
        /\ k = Len(c) \/ c[k + 1] = NL
        /\ \A j \in m..(k - 1) : c[j + 1] # NL

\* a text with each run of newlines replaced by one space: the newlines
\* that follow a newline are dropped, the others become spaces
CollapseNewlines(s) ==
    LET keep == {k \in 1..Len(s) : s[k] # NL \/ k = 1 \/ s[k - 1] # NL}
        nth(i) == CHOOSE k \in keep : Cardinality({j \in keep : j <= k}) = i
    IN  [i \in 1..Cardinality(keep) |->
            IF s[nth(i)] = NL THEN " " ELSE s[nth(i)]]

Ellipsis == <<".", ".", ".">>

\* C16: the snippet of a match is the excerpt from SNIPPET_CONTEXT_LENGTH
\* before the start of the match's line to SNIPPET_CONTEXT_LENGTH after the
\* end of the line the match ends on, cut at the ends of the content, with
\* each run of newlines replaced by a space and trimmed, with an ellipsis
\* in front if and only if the excerpt starts after offset 0 and one behind
\* if and only if it ends before the end of the content.
C16_SnippetShape ==
    (probe.fn = "getContextSnippet" /\ probe.done) =>
        LET c     == probe.content
            start == Max(0, LineStartRef(c, probe.matchIndex)
                                - SNIPPET_CONTEXT_LENGTH)
            end   == Min(Len(c), LineEndRef(c, probe.matchIndex + Len(probe.query))
                                     + SNIPPET_CONTEXT_LENGTH)
        IN  probe.out =
                (IF start > 0 THEN Ellipsis ELSE <<>>)
                \o Trim(CollapseNewlines(SubSeq(c, start + 1, end)))
                \o (IF end < Len(c) THEN Ellipsis ELSE <<>>)

\* C16 witness: a snippet with an ellipsis in front and none behind, of an
\* excerpt that holds a run of two newlines.
C16_Witness ==
    /\ probe.fn = "getContextSnippet" /\ probe.done
    /\ Len(probe.out) > 3
    /\ SubSeq(probe.out, 1, 3) = Ellipsis
    /\ probe.out[Len(probe.out)] = "x"
    /\ \E k \in 1..(Len(probe.content) - 1) :
           /\ k > probe.matchIndex
           /\ probe.content[k] = NL /\ probe.content[k + 1] = NL

C18_SelectionInRange ==
    /\ Len(window.items) > 0 =>
           /\ window.selectedIndex \in 0..(Len(window.items) - 1)
           /\ window.selected = {window.selectedIndex}
    /\ window.opened # "error"

\* C18 witness: the last of three items is selected and has been opened.
C18_Witness ==
    /\ Len(window.items) = 3
    /\ window.selectedIndex = 2
    /\ window.opened = window.items[3]

\* C19: an activation with the reads of a batch issued holds fewer than
\* limit working results: the scan issues no batch once the file-name hits
\* and the accepted content hits together number limit.
C19_NoBatchAtLimit ==
    \A c \in Calls :
        calls[c].pc = "scan" =>
            /\ Len(calls[c].results) < calls[c].limit
            /\ calls[c].pending # {}

\* C19 witness: a search returns limit file-name hits, none with a snippet,
\* while a document that matches by content is not among them: no content
\* was read.
C19_Witness ==
    /\ Missed /\ ~returned.changed
    /\ Len(returned.ret) = returned.limit
    /\ \A k \in 1..Len(returned.ret) :
           /\ returned.ret[k].snippet = <<>>
           /\ returned.ret[k].score < ContentScore
    /\ ContentMatching(vault, returned.query) \ PathsOf(returned.ret) # {}

\* the paths of the values the settled reads of a batch gave
ValuePaths(completed) ==
    UNION {PathsOf(completed[k].value) : k \in 1..Len(completed)}

\* C20: when an activation issues the reads of its next batch, the read
\* that settled in that step was the only one of the current batch still
\* outstanding, the batch offset grows by the batch size, and every document
\* of the current batch that gave a match is in the working results.
C20_BatchBarrier ==
    [][\A c \in Calls :
           (/\ calls[c].pc = "scan" /\ calls'[c].pc = "scan"
            /\ calls'[c].i # calls[c].i)
           => /\ Cardinality(calls[c].pending) = 1
              /\ Len(calls[c].completed) + 1
                     = Min(CONTENT_SEARCH_BATCH_SIZE,
                           Len(calls[c].allFiles) - calls[c].i)
              /\ calls'[c].i = calls[c].i + CONTENT_SEARCH_BATCH_SIZE
              /\ ValuePaths(calls[c].completed)
                     \subseteq PathsOf(calls'[c].results)
              /\ \A pos \in calls[c].pending :
                     LET path == calls[c].allFiles[calls[c].i + pos]
                     IN  (/\ nFailures' = nFailures
                          /\ path \in ContentMatching(vault, calls[c].query))
                         => path \in PathsOf(calls'[c].results)]_vars

\* C20 witness: the reads of the second batch are outstanding, the reads of
\* the first settled out of order, and a content match of the first batch
\* is in the working results.
C20_Witness ==
    \E c \in Calls :
        /\ calls[c].pc = "scan"
        /\ calls[c].i = CONTENT_SEARCH_BATCH_SIZE
        /\ calls[c].outOfOrder
        /\ \E k \in 1..Len(calls[c].results) :
               /\ calls[c].results[k].score = ContentScore
               /\ \E j \in 1..CONTENT_SEARCH_BATCH_SIZE :
                      calls[c].results[k].path = calls[c].allFiles[j]

\* the document reads issued by the service and not yet settled
ReadsInFlight ==
    Cardinality({<<c, pos>> \in Calls \X (1..CONTENT_SEARCH_BATCH_SIZE) :
                     calls[c].pc = "scan" /\ pos \in calls[c].pending})

StartedBy(before, after, ret) ==
    {cl \in {ret} \cup {after[c] : c \in {d \in Calls : before[d].pc = "idle"}} :
         cl.pc # "idle"}

\* C22: a call that finds a non-expired cache entry for its key returns that
\* entry's results and changes nothing: no activation is left scanning, and
\* the file-name index, lastIndexUpdate, the cache (entries, order and
\* timestamps) and the vault are as before.
C22_CacheHitFrame ==
    [][\A cl \in StartedBy(calls, calls', returned') :
           (nSearches' # nSearches /\ cl.entry = "fresh")
           => /\ cl = returned' /\ Returned'
              /\ returned'.ret =
                     CacheGet(searchCache,
                              CacheKey(cl.query, cl.limit))[1].results
              /\ UNCHANGED <<calls, fileIndex, lastIndexUpdate, searchCache,
                             vault, now>>]_vars

\* C22 witness: a call has returned from a non-expired entry although the
\* file-name index is old enough to be rebuilt and no longer lists the
\* documents of the vault.
C22_Witness ==
    /\ Returned /\ returned.hit /\ returned.entry = "fresh"
    /\ returned.ret # <<>>
    /\ now - lastIndexUpdate >= INDEX_UPDATE_INTERVAL
    /\ fileIndex.items # BuildIndex(vault)

\* C23: a call with the empty query returns the empty sequence and changes
\* nothing: no activation is left scanning, and the file-name index,
\* lastIndexUpdate, the cache and the vault are as before; it does not
\* raise where the enumeration of the documents would.
C23_EmptyQueryFrame ==
    [][\A cl \in StartedBy(calls, calls', returned') :
           (nSearches' # nSearches /\ cl.query = <<>>)
           => /\ cl = returned' /\ Returned'
              /\ returned'.ret = <<>>
              /\ UNCHANGED <<calls, fileIndex, lastIndexUpdate, searchCache,
                             vault, now>>]_vars

\* C23 witness: a call with the empty query has returned over a vault that
\* holds documents, and the service still has no file-name index and an
\* empty cache.
C23_Witness ==
    /\ Returned /\ returned.query = <<>>
    /\ \E p \in Paths : vault[p].present
    /\ ~fileIndex.built /\ lastIndexUpdate = 0 /\ searchCache = <<>>

\* the batch positions whose read settles in a step of activation c
SettledIn(before, after) ==
    IF after.pc = "scan" /\ after.i = before.i
    THEN before.pending \ after.pending
    ELSE before.pending

\* the working results of an activation after a step: its own while it is
\* scanning, else what it returned
ResultsAfter(after, ret) == IF after.pc = "scan" THEN after.results ELSE ret.ret

\* C24: when the read of a document settles that the working results
\* already hold (a file-name hit) and whose stripped content contains the
\* query, the results afterwards hold exactly one result of its path: the
\* old one with the score max(old score, ContentScore) and the content
\* snippet, path and name unchanged.
C24_MergeIntoFilenameHit ==
    [][\A c \in Calls :
           (calls[c].pc = "scan" /\ calls'[c] # calls[c]
            /\ nFailures' = nFailures)
           => \A pos \in SettledIn(calls[c], calls'[c]) :
                  LET path  == calls[c].allFiles[calls[c].i + pos]
                      after == ResultsAfter(calls'[c], returned')
                  IN  \A k \in 1..Len(calls[c].results) :
                          (/\ calls[c].results[k].path = path
                           /\ path \in ContentMatching(vault, calls[c].query))
                          => /\ Cardinality({j \in 1..Len(after) :
                                                 after[j].path = path}) = 1
                             /\ \E j \in 1..Len(after) :
                                    after[j] =
                                        [calls[c].results[k] EXCEPT
                                            !.score = Max(@, ContentScore),
                                            !.snippet =
                                                ContentMatch(
                                                    vault[path].content,
                                                    calls[c].query).snippet]
                             /\ calls[c].results[k].snippet = <<>>]_vars

\* C24 witness: a search has returned a result that the file-name search
\* found with a score above ContentScore and the scan gave its snippet, and
\* one that the scan raised to ContentScore.
C24_Witness ==
    /\ Missed
    /\ \E k \in 1..Len(returned.ret) :
           /\ returned.ret[k].snippet # <<>>
           /\ returned.ret[k].score > ContentScore
    /\ \E k \in 1..Len(returned.ret) :
           /\ returned.ret[k].score = ContentScore
           /\ FuseDistance(returned.query, returned.ret[k].path) > 0

\* the position of a path in a sequence of paths (0: not in it)
PositionIn(paths, p) == Least({k \in 1..Len(paths) : paths[k] = p})

\* the file-name hits of the search that has just returned, in the order
\* the index returned them
ReturnedFilenameHits ==
    LET r0 == FilenameResults(returned.items, vault, returned.query,
                              returned.limit)
    IN  [k \in 1..Len(r0) |-> r0[k].path]

\* C25: in the results of a search over a vault that did not change while
\* it ran, of two results of equal score a file-name hit comes before a
\* content-only hit, two file-name hits are in the order the index returned
\* them, and two content-only hits are in non-increasing order of their
\* documents' modification times.
C25_TiesKeepInsertionOrder ==
    (Missed /\ ~returned.changed) =>
        \A j \in 1..Len(returned.ret), k \in 1..Len(returned.ret) :
            (j < k /\ returned.ret[j].score = returned.ret[k].score) =>
                LET fj == PositionIn(ReturnedFilenameHits, returned.ret[j].path)
                    fk == PositionIn(ReturnedFilenameHits, returned.ret[k].path)
                IN  /\ fk # 0 => (fj # 0 /\ fj < fk)
                    /\ (fj = 0 /\ fk = 0) =>
                           vault[returned.ret[j].path].mtime
                               >= vault[returned.ret[k].path].mtime

\* C25 witness: a search has returned a file-name hit ahead of a content-only
\* hit of the same score whose document was modified later.
C25_Witness ==
    /\ Missed /\ ~returned.changed
    /\ Len(returned.ret) = 2
    /\ returned.ret[1].score = returned.ret[2].score
    /\ PositionIn(ReturnedFilenameHits, returned.ret[1].path) # 0
    /\ PositionIn(ReturnedFilenameHits, returned.ret[2].path) = 0
    /\ vault[returned.ret[1].path].mtime < vault[returned.ret[2].path].mtime

\* C26: the index and lastIndexUpdate change only together, in one step,
\* to the complete index of the vault as it is in that step and to the time
\* of that step; and the file-name search of every call that searches reads
\* the index the service holds after that step, whatever other activations
\* are suspended.
C26_IndexSnapshot ==
    [][/\ (fileIndex' # fileIndex \/ lastIndexUpdate' # lastIndexUpdate)
          => /\ fileIndex' = [built |-> TRUE, items |-> BuildIndex(vault)]
             /\ lastIndexUpdate' = now
             /\ nSearches' # nSearches
       /\ \A cl \in StartedBy(calls, calls', returned') :
              (/\ nSearches' # nSearches
               /\ ~(cl.hit \/ cl.query = <<>> \/ cl.enumFailed))
              => /\ fileIndex'.built
                 /\ cl.items = fileIndex'.items]_vars

\* C26 witness: while one activation is suspended in its scan, another call
\* has rebuilt the index, which now differs from the index the suspended
\* activation searched.
C26_Witness ==
    \E c \in Calls :
        /\ calls[c].pc = "scan"
        /\ returned.pc = "done" /\ returned.rebuilt
        /\ calls[c].items # fileIndex.items
        /\ returned.items = fileIndex.items

\* how often message m is in a log of messages
Count(log, m) == Cardinality({k \in 1..Len(log) : log[k] = m})

\* message m was followed by another less than SEARCH_DEBOUNCE_MS later
Superseded(m) ==
    /\ m < Len(ipc.sent)
    /\ ipc.sent[m + 1].at - ipc.sent[m].at < SEARCH_DEBOUNCE_MS

\* C27: searchInFiles is never called, and no reply is sent, for a message
\* that was followed by another less than SEARCH_DEBOUNCE_MS later; for any
\* message it is called at most once, with that message's query and the
\* configured limit, and once that call has settled exactly one reply has
\* been sent for it.
C27_DebouncedBurst ==
    \A m \in 1..Len(ipc.sent) :
        /\ Superseded(m) =>
               Count(ipc.invoked, m) = 0 /\ Count(ipc.replies, m) = 0
        /\ Count(ipc.invoked, m) <= 1
        /\ Count(ipc.replies, m) <= Count(ipc.invoked, m)
        /\ \A c \in Calls :
               ipc.owner[c] = m =>
                   /\ calls[c].pc = "scan"
                   /\ calls[c].query = ipc.sent[m].query
                   /\ calls[c].limit = MaxResults
                   /\ Count(ipc.replies, m) = 0
        /\ (Count(ipc.invoked, m) = 1 /\ \A c \in Calls : ipc.owner[c] # m)
               => Count(ipc.replies, m) = 1

\* C27 witness: three messages have arrived 10 ms and 40 ms apart; one call
\* was made, for the third, and one reply sent.
C27_Witness ==
    /\ Len(ipc.sent) = 3
    /\ Superseded(1) /\ Superseded(2)
    /\ ipc.sent[1].query # ipc.sent[3].query
    /\ ipc.invoked = <<3>>
    /\ ipc.replies = <<3>>
    /\ nSearches = 1

\* the argument of the message handled in a step is empty, not a string or
\* holds two dots
BadArgument(state) ==
    LET a == state.request.arg
    IN  \/ a.type # "string"
        \/ a.text = <<>>
        \/ \E k \in 1..(Len(a.text) - 1) : a.text[k] = "." /\ a.text[k + 1] = "."

\* C28: a step that handles an open-file message with such an argument
\* opens no file and leaves the window open; one that handles a
\* get-file-preview message with such an argument reads no file and sends
\* one reply, the empty preview of that argument; both leave the service,
\* the vault and the window's list as they are.
C28_InvalidPathRejected ==
    [][(ipc'.nRequests # ipc.nRequests /\ BadArgument(ipc'))
       => /\ UNCHANGED <<vault, fileIndex, lastIndexUpdate, searchCache, calls,
                         window>>
          /\ ipc'.openedFile = ipc.openedFile
          /\ ipc'.previewReads = ipc.previewReads
          /\ ipc'.windowOpen = ipc.windowOpen
          /\ IF ipc'.request.channel = "open-file"
             THEN ipc'.previewReplies = ipc.previewReplies
             ELSE ipc'.previewReplies =
                      Append(ipc.previewReplies,
                             [path |-> ipc'.request.arg, content |-> <<>>,
                              imageData |-> {}, empty |-> TRUE])]_vars

\* C28 witness: over a vault that holds a.md, an open-file message for
\* ../a.md has been handled after a preview request for a..md: the window
\* is open, no file was opened or read, and one empty preview was sent.
C28_Witness ==
    /\ vault["a.md"].present
    /\ ipc.nRequests = 2
    /\ ipc.request = [channel |-> "open-file",
                      arg |-> Str(<<".", ".", "/", "a", ".", "m", "d">>)]
    /\ ipc.windowOpen /\ ipc.openedFile = "none"
    /\ ipc.previewReads = <<>>
    /\ Len(ipc.previewReplies) = 1
    /\ ipc.previewReplies[1].path = Str(<<"a", ".", ".", "m", "d">>)
    /\ ipc.previewReplies[1].empty

\* C29: a search over a vault that did not change while it ran and that
\* returns fewer results than its limit returns every document whose read
\* succeeded and whose stripped content contains the query.
C29_ShortResultIsComplete ==
    (Missed /\ ~returned.changed /\ Len(returned.ret) < returned.limit) =>
        (ContentMatching(vault, returned.query) \ returned.failed)
            \subseteq PathsOf(returned.ret)

\* C29 witness: over a vault of three documents, more than one batch, a
\* search with limit 2 has returned one result, a content match, and left
\* out the one other matching document, whose read failed.
C29_Witness ==
    /\ Missed /\ ~returned.changed
    /\ Cardinality(Present(vault)) = 3
    /\ returned.limit = 2 /\ Len(returned.ret) = 1
    /\ returned.ret[1].score = ContentScore
    /\ Cardinality(ContentMatching(vault, returned.query)) = 2
    /\ Cardinality(returned.failed) = 1
    /\ returned.failed \subseteq ContentMatching(vault, returned.query)

\* C30: the search-results replies are sent in the order in which their
\* searches were started, and once no search is suspended the window shows
\* the results of the message searched for last.
C30_RepliesInStartOrder ==
    /\ \A j \in 1..Len(ipc.replies), k \in 1..Len(ipc.replies) :
           j < k => ipc.replies[j] < ipc.replies[k]
    /\ (ipc.invoked # <<>> /\ \A c \in Calls : ipc.owner[c] = 0)
           => ipc.shown = ipc.invoked[Len(ipc.invoked)]

\* C31: once cleanup() has run, the plugin has no accelerator registered,
\* its listeners are not attached, and no search has been started since.
C31_NothingAfterCleanup ==
    plugin.unloaded =>
        /\ plugin.registered = {}
        /\ ~plugin.attached
        /\ nSearches = plugin.searchesAtUnload

C32_OpenWindowIsReferenced ==
    \A w \in 1..Len(plugin.windows) :
        plugin.windows[w] = "open" => plugin.searchWindow = w

\* C34: every path in the result of a cache-miss search is the path of a
\* document that was in the vault when the search started.
C34_ResultsArePresent ==
    Missed => PathsOf(returned.ret) \subseteq returned.present

\* C34 witness: the index the search read holds a document that matches the
\* query by name and was deleted before the search started; it is not in
\* the result, which has room for it.
C34_Witness ==
    /\ Missed /\ ~returned.rebuilt
    /\ Len(returned.ret) < returned.limit
    /\ \E p \in Paths :
           /\ \E k \in 1..Len(returned.items) :
                  /\ returned.items[k] = p
                  /\ FuseDistance(returned.query, p) >= 0
           /\ p \notin returned.present
           /\ p \notin PathsOf(returned.ret)

\* C35: the entry a cache eviction removes has the smallest timestamp of the
\* cache: no entry that stays was written earlier.
C35_EvictsOldestTimestamp ==
    [][\A k \in 1..Len(searchCache) :
           (\A j \in 1..Len(searchCache') :
                searchCache'[j].key # searchCache[k].key)
           => \A j \in 1..Len(searchCache') :
                  searchCache'[j].timestamp >= searchCache[k].timestamp]_vars

\* the reply of the step that handled a get-file-preview message
PreviewReplyOf(before, after) == after.previewReplies[Len(before.previewReplies) + 1]

\* C36: a step that handles a get-file-preview message sends exactly one
\* file-preview reply, which carries the message's argument as path; it is
\* the empty preview when the argument is invalid or names no file or the
\* read or the rendering fails, and else it carries the document's content
\* and the images whose conversion did not fail.
C36_OneReplyPerPreview ==
    [][(ipc'.nRequests # ipc.nRequests
        /\ ipc'.request.channel = "get-file-preview")
       => LET req   == ipc'.request
              files == {p \in Paths :
                           vault[p].present /\ PathChars(p) = req.arg.text}
          IN  /\ Len(ipc'.previewReplies) = Len(ipc.previewReplies) + 1
              /\ SubSeq(ipc'.previewReplies, 1, Len(ipc.previewReplies))
                     = ipc.previewReplies
              /\ PreviewReplyOf(ipc, ipc').path = req.arg
              /\ IF BadArgument(ipc') \/ files = {} \/ req.outcome # "ok"
                 THEN PreviewReplyOf(ipc, ipc') =
                          [path |-> req.arg, content |-> <<>>,
                           imageData |-> {}, empty |-> TRUE]
                 ELSE /\ ~PreviewReplyOf(ipc, ipc').empty
                      /\ PreviewReplyOf(ipc, ipc').imageData
                             = DocImages \ req.failing
                      /\ \E p \in files :
                             PreviewReplyOf(ipc, ipc').content
                                 = vault[p].content]_vars

\* C36 witness: two messages for documents have been answered, one whose
\* read failed with the empty preview and one with the content and one of
\* the two images, the other image skipped.
C36_Witness ==
    /\ Len(ipc.previewReplies) = 2 /\ ipc.nRequests = 2
    /\ Len(ipc.previewReads) = 2
    /\ ipc.previewReplies[1].empty
    /\ ipc.previewReplies[2].imageData = {"j.png"}
    /\ ipc.previewReplies[2].content # <<>>

\* C37: with every get-file-preview message answered and an item selected,
\* the preview pane shows the preview of the selected item.
C37_PreviewOfSelection ==
    (window.requests = <<>> /\ window.selected # {})
        => window.preview = ItemPath(window.items, window.selectedIndex)

\* C38: a step that empties the search field sends get-recent-files, and
\* search-content is sent only while the field holds a query.
C38_NoSearchAfterClear ==
    [][/\ (window'.input # window.input /\ Trim(window'.input) = <<>>)
          => window'.nRecent = window.nRecent + 1
       /\ Len(window'.sent) > Len(window.sent)
          => Trim(window.input) # <<>>]_vars

\* C39: isRecording is true exactly when one recording handler is attached
\* to the hotkey input, and the session that ended last was ended by its
\* own handler or its own timer.
C39_RecordingConsistent ==
    /\ plugin.isRecording <=> Cardinality(plugin.handlers) = 1
    /\ plugin.lastEnd.session = plugin.lastEnd.by

\* the limits of the calls of searchInFiles are in [1, 200]
LimitsInRange ==
    /\ \A c \in Calls : calls[c].pc # "idle" => calls[c].limit \in 1..200
    /\ returned.pc = "done" => returned.limit \in 1..200

\* the text holds a character that is no part of a decimal numeral
NotANumber(text) ==
    \/ \A k \in 1..Len(text) : text[k] \in Whitespace
    \/ \E k \in 1..Len(text) :
           text[k] \notin Digits \cup Whitespace \cup {"+", "-", ".", "e", "E"}

\* a text that is a decimal integer, and its value
IsInteger(text) == text # <<>> /\ \A k \in 1..Len(text) : text[k] \in Digits

====
